---- MODULE Spec2Model ----
(***************************************************************************)
(* Model of the resource-pack transcoder of MARVserver/packmaker           *)
(* (src/unnamed/part_000, the ResourcePackMaker component, and             *)
(* src/unnamed/part_001, the Bedrock import helpers).                      *)
(*                                                                         *)
(* Strings that the code takes apart are modelled structurally:            *)
(*   - a reference such as "minecraft:item/gem" is [ns, segs]: the text    *)
(*     before the colon and the "/"-separated segments after it;           *)
(*   - an archive path such as "assets/minecraft/items/stick.json" is      *)
(*     [segs, ext]: its "/"-separated segments (the last one without the   *)
(*     extension) and the extension;                                       *)
(*   - an archive (JSZip) is the sequence of its entries in insertion      *)
(*     order, each [path, doc]; zip.file(path, doc) replaces in place.     *)
(* React state is one variable per useState cell; an async callback reads  *)
(* the values its closure captured and writes through the setters.         *)
(***************************************************************************)
EXTENDS Integers, Sequences, FiniteSets, TLC

VARIABLES
    resourcePack,     \* useState<ResourcePack>
    packEdition,      \* useState<"java" | "bedrock">
    versionConfigs,   \* useState<VersionConfig[]>
    isProcessing,     \* useState(false)
    flagTimers,       \* pending setTimeout callbacks that clear isProcessing
    mv,               \* the running generateMultiVersionPacks call
    mvRuns,           \* what each generateZip call of that run delivered
    download,         \* what the last stand-alone generateZip call delivered
    validationResults, \* useState<{isValid, errors}>
    upload,           \* the file offered to importExistingPack
    imported,         \* the last importExistingPack call: its file and its result
    mergePacks,       \* useState<{name, file}[]>
    mergeConflicts,   \* useState<MergeConflict[]>
    analysis,         \* the last analyzeMergeConflicts call: its packs and its result
    merge,            \* the last executeMerge call: its inputs and mergedTextures
    rendered,         \* resourcePack.models as the last render handed it to the callbacks
    textureWorker,    \* useTextureWorker: the worker's inbox, the replies and the callers
    zipWorker         \* useZipWorker: the worker's generator, inbox, replies and callers

exportVars == <<resourcePack, packEdition, versionConfigs, isProcessing, flagTimers,
                mv, mvRuns, download, validationResults>>
importVars == <<upload, imported>>
editorVars == <<rendered, textureWorker, zipWorker>>
vars == <<resourcePack, packEdition, versionConfigs, isProcessing, flagTimers, mv, mvRuns,
          download, validationResults, upload, imported, mergePacks, mergeConflicts,
          analysis, merge, rendered, textureWorker, zipWorker>>

None == "none"

\* zip.file(path) of a missing entry
NoDoc == [kind |-> "absent"]

(***************************************************************************)
(* Bounds                                                                  *)
(***************************************************************************)
MaxModels == 2
MaxId == 2
MaxTimers == 2
MaxTextures == 2
MaxPacks == 2
MaxUploads == 1
MaxCalls == 2

(***************************************************************************)
(* Program constants                                                       *)
(***************************************************************************)
DispatchFormat == 48
DefaultFormat == 63

\* The known base items the importer probes for legacy override lists.
MINECRAFT_ITEMS == <<"stick", "diamond_sword", "bow">>

(***************************************************************************)
(* Sequence helpers                                                        *)
(***************************************************************************)
Range(s) == {s[i] : i \in 1..Len(s)}

SeqsUpTo(S, n) == UNION {[1..k -> S] : k \in 0..n}

Last(s) == s[Len(s)]

\* an object has the property
HasField(doc, f) == f \in DOMAIN doc

\* Array.prototype.filter with a predicate given as the set of kept values
RECURSIVE FilterSeq(_, _)
FilterSeq(s, keep) ==
    IF s = <<>> THEN <<>>
    ELSE (IF Head(s) \in keep THEN <<Head(s)>> ELSE <<>>) \o FilterSeq(Tail(s), keep)

\* index of the first element of s satisfying membership in S, 0 if none
RECURSIVE FirstIndexIn(_, _, _)
FirstIndexIn(s, S, i) ==
    IF i > Len(s) THEN 0
    ELSE IF s[i] \in S THEN i ELSE FirstIndexIn(s, S, i + 1)

(***************************************************************************)
(* Archives (JSZip)                                                        *)
(***************************************************************************)
ZipPath(segs, ext) == [segs |-> segs, ext |-> ext]

PathIndex(zip, path) == FirstIndexIn([i \in 1..Len(zip) |-> zip[i].path], {path}, 1)

\* zip.file(path, content): a new entry, or the content of the existing one replaced
ZipFile(zip, path, doc) ==
    LET i == PathIndex(zip, path)
    IN  IF i = 0 THEN Append(zip, [path |-> path, doc |-> doc])
        ELSE [zip EXCEPT ![i] = [path |-> path, doc |-> doc]]

\* zip.file(path): the entry, or NoDoc
ZipGet(zip, path) ==
    LET i == PathIndex(zip, path)
    IN  IF i = 0 THEN NoDoc ELSE zip[i].doc

\* all writes of a log applied in order
RECURSIVE ApplyWrites(_, _)
ApplyWrites(zip, writes) ==
    IF writes = <<>> THEN zip
    ELSE ApplyWrites(ZipFile(zip, Head(writes).path, Head(writes).doc), Tail(writes))

(***************************************************************************)
(* References: "ns:seg/seg/..." as [ns, segs]                              *)
(***************************************************************************)
Ref(ns, segs) == [ns |-> ns, segs |-> segs]

\* the "/"-separated segments of the text of a reference: a namespace stays glued,
\* with its colon, to the first segment
Flat(ref) ==
    IF ref.ns = "" THEN ref.segs
    ELSE <<ref.ns \o ":" \o Head(ref.segs)>> \o Tail(ref.segs)

\* `minecraft:item/${name}` for a name given by its segments
ItemRef(nameSegs) == Ref("minecraft", <<"item">> \o nameSegs)

(***************************************************************************)
(* Validation                                                              *)
(***************************************************************************)
\* dataValues.filter((value, index) => dataValues.indexOf(value) !== index)
Duplicates(values) ==
    FilterSeq(values, {values[i] : i \in {j \in 1..Len(values) :
                                             \E k \in 1..(j - 1) : values[k] = values[j]}})

\* the identifiers of the models of one target item, in model order
IdsOfItem(models, item) ==
    LET picked == FilterSeq(models, {m \in Range(models) : m.targetItem = item})
    IN  [i \in 1..Len(picked) |-> picked[i].customModelData]

\* distinct values of s in order of first occurrence (the key order of a reduce-built object)
RECURSIVE FirstOccurrences(_, _)
FirstOccurrences(s, seen) ==
    IF s = <<>> THEN <<>>
    ELSE IF Head(s) \in seen THEN FirstOccurrences(Tail(s), seen)
         ELSE <<Head(s)>> \o FirstOccurrences(Tail(s), seen \cup {Head(s)})

TargetItems(models) == FirstOccurrences([i \in 1..Len(models) |-> models[i].targetItem], {})

RECURSIVE DuplicateErrors(_, _)
DuplicateErrors(models, items) ==
    IF items = <<>> THEN <<>>
    ELSE (IF Duplicates(IdsOfItem(models, Head(items))) # <<>>
          THEN <<[error |-> "Duplicate custom model data", item |-> Head(items)]>>
          ELSE <<>>) \o DuplicateErrors(models, Tail(items))

validateResourcePack(pack) ==
    (IF pack.name = "" THEN <<[error |-> "Pack name is required"]>> ELSE <<>>)
    \o (IF pack.description = "" THEN <<[error |-> "Pack description is required"]>> ELSE <<>>)
    \o (IF Len(pack.models) = 0 THEN <<[error |-> "At least one model is required"]>> ELSE <<>>)
    \o DuplicateErrors(pack.models, TargetItems(pack.models))

\* validateModel: the messages of one model
validateModel(model) ==
    (IF model.name = "" THEN <<"Model name is required">> ELSE <<>>)
    \o (IF model.customModelData < 1 THEN <<"Valid custom model data is required">> ELSE <<>>)
    \o (IF model.targetItem = "" THEN <<"Target item is required">> ELSE <<>>)
    \o (IF Len(model.textures) = 0 THEN <<"At least one texture is required">> ELSE <<>>)

RECURSIVE ModelErrors(_)
ModelErrors(models) ==
    IF models = <<>> THEN <<>>
    ELSE [i \in 1..Len(validateModel(Head(models))) |->
             [error |-> validateModel(Head(models))[i], model |-> Head(models).name]]
         \o ModelErrors(Tail(models))

\* allErrors of validatePack: the pack's messages, then each model's, prefixed by its name
allErrors(pack) == validateResourcePack(pack) \o ModelErrors(pack.models)

\* useState({isValid: true, errors: []}); pack is the pack the last validatePack call
\* captured, <<>> before the first call
NoErrors == [isValid |-> TRUE, errors |-> <<>>, pack |-> <<>>]

(***************************************************************************)
(* convertToBedrock                                                        *)
(*                                                                         *)
(* A Blockbench document is [name, outliner, elements]: the outliner is    *)
(* the sequence of its top nodes, a node is [name, origin, children], and  *)
(* a child is either a reference [uuid] to an element or a node.           *)
(***************************************************************************)
\* bedrockGeometry: null
NoGeometry == [kind |-> "null"]

\* elements.find((e) => e.uuid === childUuid): a child that is a node equals no uuid
ElementsOf(bbmodelData, child) ==
    IF HasField(child, "uuid")
    THEN FilterSeq(bbmodelData.elements,
                   {e \in Range(bbmodelData.elements) : e.uuid = child.uuid})
    ELSE <<>>

\* cube: origin and size of the element
Cube(element) ==
    [origin |-> element.from,
     size   |-> [k \in 1..3 |-> element.to[k] - element.from[k]]]

\* item.children.forEach(...): one cube per child that finds an element
RECURSIVE CubesOf(_, _)
CubesOf(bbmodelData, children) ==
    IF children = <<>> THEN <<>>
    ELSE (IF ElementsOf(bbmodelData, Head(children)) # <<>>
          THEN <<Cube(Head(ElementsOf(bbmodelData, Head(children))))>> ELSE <<>>)
         \o CubesOf(bbmodelData, Tail(children))

\* processBone(item): called without a parentName, and never on a child
processBone(bbmodelData, item) ==
    [name  |-> item.name,
     pivot |-> IF HasField(item, "origin") THEN item.origin ELSE <<0, 0, 0>>,
     cubes |-> IF HasField(item, "children") THEN CubesOf(bbmodelData, item.children) ELSE <<>>]

\* convertToBedrock(bbmodelData, modelName): a document whose elements are not an
\* array throws in find, and the catch returns null
convertToBedrock(bbmodelData, modelName) ==
    IF \E i \in 1..Len(bbmodelData.outliner) :
           /\ HasField(bbmodelData.outliner[i], "children")
           /\ bbmodelData.outliner[i].children # <<>>
           /\ ~bbmodelData.elementsIsArray
    THEN NoGeometry
    ELSE [kind       |-> "geometry",
          identifier |-> modelName,
          bones      |-> [i \in 1..Len(bbmodelData.outliner) |->
                            processBone(bbmodelData, bbmodelData.outliner[i])]]

\* model.bedrockGeometry is truthy
HasGeometry(model) ==
    HasField(model, "bedrockGeometry") /\ model.bedrockGeometry # NoGeometry

(***************************************************************************)
(* generateZip: the Java Edition branch                                    *)
(***************************************************************************)
\* resourcePack.models.filter((m) => m.customModelData && m.targetItem)
validModels(models) ==
    FilterSeq(models, {m \in Range(models) : m.customModelData # 0 /\ m.targetItem # ""})

\* [...models].sort((a, b) => a.customModelData - b.customModelData): a stable sort
RECURSIVE InsertByCmd(_, _)
InsertByCmd(sorted, m) ==
    IF sorted = <<>> THEN <<m>>
    ELSE IF Head(sorted).customModelData <= m.customModelData
         THEN <<Head(sorted)>> \o InsertByCmd(Tail(sorted), m)
         ELSE <<m>> \o sorted

RECURSIVE SortFrom(_, _)
SortFrom(sorted, rest) ==
    IF rest = <<>> THEN sorted ELSE SortFrom(InsertByCmd(sorted, Head(rest)), Tail(rest))

\* a variant that leaves the models in pack order
sortedModelsMutUnsorted(models) == models

\* [...models].sort((a, b) => a.customModelData - b.customModelData)
sortedModels(models) == SortFrom(<<>>, models)

ItemsPath(itemName) == ZipPath(<<"assets", "minecraft", "items", itemName>>, "json")
ModelsItemPath(name) == ZipPath(<<"assets", "minecraft", "models", "item", name>>, "json")
TexturePath(nameSegs) == ZipPath(<<"assets", "minecraft", "textures", "item">> \o nameSegs, "png")

\* the range_dispatch item definition of one target item (format >= 48)
ItemDef(itemName, models) ==
    [kind     |-> "range_dispatch",
     fallback |-> ItemRef(<<itemName>>),
     entries  |-> [i \in 1..Len(models) |->
                     [threshold |-> models[i].customModelData,
                      model     |-> ItemRef(<<models[i].name>>)]]]

\* the legacy item model of one target item (format < 48)
ItemModel(itemName, models) ==
    [kind      |-> "overrides",
     parent    |-> "item/generated",
     textures  |-> <<[layer |-> "layer0", ref |-> ItemRef(<<itemName>>)]>>,
     overrides |-> [i \in 1..Len(models) |->
                      [predicate |-> [custom_model_data |-> models[i].customModelData],
                       model     |-> ItemRef(<<models[i].name>>)]]]

\* a variant that writes the dispatch shape for every format
UsesDispatchMutAlways(format) == TRUE

\* resourcePack.format >= 48
UsesDispatch(format) == format >= DispatchFormat

ItemDefinitionWrite(format, itemName, group) ==
    IF UsesDispatch(format)
    THEN [path |-> ItemsPath(itemName), doc |-> ItemDef(itemName, sortedModels(group))]
    ELSE [path |-> ModelsItemPath(itemName), doc |-> ItemModel(itemName, sortedModels(group))]

RECURSIVE ItemDefinitionWrites(_, _, _)
ItemDefinitionWrites(format, items, valid) ==
    IF items = <<>> THEN <<>>
    ELSE <<ItemDefinitionWrite(format, Head(items),
               FilterSeq(valid, {m \in Range(valid) : m.targetItem = Head(items)}))>>
         \o ItemDefinitionWrites(format, Tail(items), valid)

\* the model document of one model
ModelJson(model) ==
    [kind     |-> "model",
     parent   |-> IF model.parent = "" THEN "item/generated" ELSE model.parent,
     textures |-> [i \in 1..Len(model.textures) |->
                     [layer |-> model.textures[i].layer,
                      ref   |-> ItemRef(Flat(model.textures[i].ref))]]]

ModelWrites(valid) ==
    [i \in 1..Len(valid) |-> [path |-> ModelsItemPath(valid[i].name), doc |-> ModelJson(valid[i])]]

TextureWrites(textures) ==
    [i \in 1..Len(textures) |->
        [path |-> TexturePath(<<textures[i].name>>), doc |-> [kind |-> "texture", file |-> textures[i].file]]]

\* value || 8
OrEight(value) == IF value = 0 THEN 8 ELSE value

\* the writes of a loop: the writes of each round, in order
RECURSIVE Concat(_)
Concat(rounds) == IF rounds = <<>> THEN <<>> ELSE Head(rounds) \o Concat(Tail(rounds))

\* A provider may carry fileHandle, the file the user uploaded for it, and file, a
\* reference to its source (for a ttf provider with fileExt, the extension the
\* reference ends in); a font may carry file, the file the user uploaded for the font.
\* An uploaded file is [name, ext].
\* ext.toLowerCase()
Lower(ext) == IF ext = "PNG" THEN "png" ELSE IF ext = "TTF" THEN "ttf" ELSE ext

\* provider.file.match(/minecraft:font\/(.+)\.../)
MatchesFontRef(provider) ==
    /\ HasField(provider, "file")
    /\ provider.file.ns = "minecraft"
    /\ Len(provider.file.segs) > 1
    /\ Head(provider.file.segs) = "font"

\* filename: the name of the provider's file in the archive, without extension
SourceName(font, provider) ==
    IF HasField(provider, "fileHandle") THEN <<provider.fileHandle.name>>
    ELSE IF MatchesFontRef(provider) THEN Tail(provider.file.segs)
         ELSE <<font.name>>

\* the font's own file serves a ttf provider
FitsTtf(font) == HasField(font, "file") /\ Lower(font.file.ext) \in {"ttf", "otf"}

\* extension of a ttf provider's file
SourceExtension(font, provider) ==
    IF HasField(provider, "fileHandle") THEN Lower(provider.fileHandle.ext)
    ELSE IF HasField(provider, "file")
         THEN (IF MatchesFontRef(provider) /\ HasField(provider, "fileExt")
               THEN provider.fileExt ELSE "ttf")
         ELSE IF FitsTtf(font) THEN Lower(font.file.ext) ELSE "ttf"

\* one entry of fontJson.providers
ProviderJson(font, provider) ==
    IF provider.type = "bitmap"
    THEN [type |-> "bitmap", file |-> Ref("minecraft", <<"font">> \o SourceName(font, provider)),
          ascent |-> OrEight(provider.ascent), height |-> OrEight(provider.height)]
    ELSE IF provider.type = "ttf"
         THEN [type |-> "ttf", file |-> Ref("minecraft", <<"font">> \o SourceName(font, provider)),
               fileExt |-> SourceExtension(font, provider)]
         ELSE [type |-> provider.type, advances |-> <<>>]

FontJson(font) ==
    [kind      |-> "font",
     providers |-> [i \in 1..Len(font.providers) |-> ProviderJson(font, font.providers[i])]]

FontPath(name) == ZipPath(<<"assets", "minecraft", "font", name>>, "json")

\* a variant that saves the font's file also when the provider has a file of its own
SourceWritesMutBoth(font, provider) ==
    (IF provider.type \in {"bitmap", "ttf"} /\ HasField(provider, "fileHandle")
     THEN <<[path |-> ZipPath(<<"assets", "minecraft">>
                              \o (IF provider.type = "bitmap" THEN <<"textures">> ELSE <<>>)
                              \o <<"font", provider.fileHandle.name>>, provider.fileHandle.ext),
             doc  |-> [kind |-> "fontsource", file |-> provider.fileHandle]]>>
     ELSE <<>>)
    \o (IF provider.type \in {"bitmap", "ttf"} /\ HasField(font, "file")
        THEN <<[path |-> ZipPath(<<"assets", "minecraft">>
                                 \o (IF provider.type = "bitmap" THEN <<"textures">> ELSE <<>>)
                                 \o <<"font">> \o SourceName(font, provider), Lower(font.file.ext)),
                doc  |-> [kind |-> "fontsource", file |-> font.file]]>>
        ELSE <<>>)

\* the source file saved for one provider: its own file, else the font's file when
\* that is a .png (bitmap) or a ttf/otf (ttf)
SourceWrites(font, provider) ==
    IF provider.type = "bitmap"
    THEN (IF HasField(provider, "fileHandle")
          THEN <<[path |-> ZipPath(<<"assets", "minecraft", "textures", "font",
                                     provider.fileHandle.name>>, provider.fileHandle.ext),
                  doc  |-> [kind |-> "fontsource", file |-> provider.fileHandle]]>>
          ELSE IF HasField(font, "file") /\ Lower(font.file.ext) = "png"
               THEN <<[path |-> ZipPath(<<"assets", "minecraft", "textures", "font">>
                                        \o SourceName(font, provider), "png"),
                       doc  |-> [kind |-> "fontsource", file |-> font.file]]>>
               ELSE <<>>)
    ELSE IF provider.type = "ttf"
         THEN (IF HasField(provider, "fileHandle")
               THEN <<[path |-> ZipPath(<<"assets", "minecraft", "font",
                                          provider.fileHandle.name>>, provider.fileHandle.ext),
                       doc  |-> [kind |-> "fontsource", file |-> provider.fileHandle]]>>
               ELSE IF FitsTtf(font)
                    THEN <<[path |-> ZipPath(<<"assets", "minecraft", "font">>
                                             \o SourceName(font, provider),
                                             SourceExtension(font, provider)),
                            doc  |-> [kind |-> "fontsource", file |-> font.file]]>>
                    ELSE <<>>)
         ELSE <<>>

\* for (const font of resourcePack.fonts): the source files of its providers, then
\* zip.file(`assets/minecraft/font/${font.name}.json`)
FontWrites(fonts) ==
    Concat([i \in 1..Len(fonts) |->
        Concat([k \in 1..Len(fonts[i].providers) |->
                   SourceWrites(fonts[i], fonts[i].providers[k])])
        \o <<[path |-> FontPath(fonts[i].name), doc |-> FontJson(fonts[i])]>>])

\* convertSoundsToJava(sounds), written as assets/minecraft/sounds.json, and the file
\* of every sound that has one
SoundWrites(sounds) ==
    IF sounds = <<>> THEN <<>>
    ELSE <<[path |-> ZipPath(<<"assets", "minecraft", "sounds">>, "json"),
            doc  |-> [kind |-> "sounds",
                      entries |-> [i \in 1..Len(sounds) |->
                                     [name |-> sounds[i].name, category |-> sounds[i].category,
                                      sounds |-> sounds[i].sounds]]]]>>
         \o Concat([i \in 1..Len(sounds) |->
               IF HasField(sounds[i], "file")
               THEN <<[path |-> ZipPath(<<"assets", "minecraft", "sounds", sounds[i].name>>,
                                        sounds[i].file.ext),
                       doc  |-> [kind |-> "sound", file |-> sounds[i].file]]>>
               ELSE <<>>])

\* convertLangToJava(lang.content), written as assets/minecraft/lang/<code>.json
LanguageWrites(languages) ==
    [i \in 1..Len(languages) |->
        [path |-> ZipPath(<<"assets", "minecraft", "lang", languages[i].code>>, "json"),
         doc  |-> [kind |-> "lang", content |-> languages[i].content]]]

\* the particle document of every particle, and its texture when it has a file
ParticleWrites(particles) ==
    Concat([i \in 1..Len(particles) |->
        <<[path |-> ZipPath(<<"assets", "minecraft", "particles", particles[i].name>>, "json"),
           doc  |-> [kind |-> "particle", textures |-> particles[i].textures]]>>
        \o (IF HasField(particles[i], "file")
            THEN <<[path |-> ZipPath(<<"assets", "minecraft", "textures", "particle",
                                       particles[i].name>>, "png"),
                    doc  |-> [kind |-> "texture", file |-> particles[i].file]]>>
            ELSE <<>>)])

\* the shaders that carry a file or a content, each under the folder and extension of
\* its type
ShaderWrites(shaders) ==
    Concat([i \in 1..Len(shaders) |->
        IF HasField(shaders[i], "file") \/ HasField(shaders[i], "content")
        THEN <<[path |-> ZipPath(<<"assets", "minecraft", "shaders",
                                   IF shaders[i].type = "program" THEN "program" ELSE "core",
                                   shaders[i].name>>,
                                 IF shaders[i].type = "program" THEN "json"
                                 ELSE IF shaders[i].type = "vertex" THEN "vsh" ELSE "fsh"),
                doc  |-> IF HasField(shaders[i], "file") THEN shaders[i].file
                         ELSE shaders[i].content]>>
        ELSE <<>>])

PackMcmeta(pack) ==
    [kind        |-> "pack.mcmeta",
     pack_format |-> pack.format,
     description |-> IF pack.description = "" THEN "Generated Resource Pack" ELSE pack.description]

JavaWrites(pack) ==
    LET valid == validModels(pack.models)
    IN  <<[path |-> ZipPath(<<"pack">>, "mcmeta"), doc |-> PackMcmeta(pack)],
          [path |-> ZipPath(<<"README">>, "md"), doc |-> [kind |-> "readme"]]>>
        \o ItemDefinitionWrites(pack.format, TargetItems(valid), valid)
        \o ModelWrites(valid)
        \o TextureWrites(pack.textures)
        \o FontWrites(pack.fonts)
        \o SoundWrites(pack.sounds)
        \o LanguageWrites(pack.languages)
        \o ParticleWrites(pack.particles)
        \o ShaderWrites(pack.shaders)
        \o <<[path |-> ZipPath(<<"geyser_mappings">>, "json"), doc |-> [kind |-> "geyser"]]>>

\* a variant that writes both documents for every valid model
RECURSIVE GeometryWritesMutEveryModel(_)
GeometryWritesMutEveryModel(models) ==
    IF models = <<>> THEN <<>>
    ELSE <<[path |-> ZipPath(<<"models", "entity", Head(models).name>>, "geo.json"),
            doc  |-> IF HasGeometry(Head(models)) THEN Head(models).bedrockGeometry
                     ELSE NoGeometry],
           [path |-> ZipPath(<<Head(models).name>>, "attachable.json"),
            doc  |-> [kind |-> "attachable", identifier |-> Head(models).name,
                      geometry |-> Head(models).name]]>>
         \o GeometryWritesMutEveryModel(Tail(models))

\* the geometry and the attachable of every valid model that has a geometry
RECURSIVE GeometryWrites(_)
GeometryWrites(models) ==
    IF models = <<>> THEN <<>>
    ELSE (IF HasGeometry(Head(models))
          THEN <<[path |-> ZipPath(<<"models", "entity", Head(models).name>>, "geo.json"),
                  doc  |-> Head(models).bedrockGeometry],
                 [path |-> ZipPath(<<Head(models).name>>, "attachable.json"),
                  doc  |-> [kind |-> "attachable", identifier |-> Head(models).name,
                            geometry |-> Head(models).name]]>>
          ELSE <<>>)
         \o GeometryWrites(Tail(models))

\* the Bedrock Edition branch: manifest, geometries and attachables, textures, readme,
\* mapping
BedrockWrites(pack) ==
    <<[path |-> ZipPath(<<"manifest">>, "json"), doc |-> [kind |-> "manifest"]]>>
    \o GeometryWrites(validModels(pack.models))
    \o [i \in 1..Len(pack.textures) |->
          [path |-> ZipPath(<<"textures", "entity", pack.textures[i].name>>, "png"),
           doc  |-> [kind |-> "texture", file |-> pack.textures[i].file]]]
    \o <<[path |-> ZipPath(<<"README">>, "txt"), doc |-> [kind |-> "readme"]],
         [path |-> ZipPath(<<"geyser_mappings">>, "json"), doc |-> [kind |-> "geyser"]]>>

\* a variant without the validation gate
GenerateZipResultMutNoGate(pack, edition) ==
    LET writes == IF edition = "bedrock" THEN BedrockWrites(pack) ELSE JavaWrites(pack)
    IN  [outcome |-> "archive", errors |-> validateResourcePack(pack), pack |-> pack,
         edition |-> edition, writes |-> writes, zip |-> ApplyWrites(<<>>, writes)]

\* One generateZip call on the pack and edition its closure captured: the validation
\* gate, then every zip.file call in order, then the archive handed to the browser.
GenerateZipResult(pack, edition) ==
    IF validateResourcePack(pack) # <<>>
    THEN [outcome |-> "invalid", errors |-> validateResourcePack(pack), pack |-> pack,
          edition |-> edition, writes |-> <<>>, zip |-> <<>>]
    ELSE LET writes == IF edition = "bedrock" THEN BedrockWrites(pack) ELSE JavaWrites(pack)
         IN  [outcome |-> "archive", errors |-> <<>>, pack |-> pack, edition |-> edition,
              writes |-> writes, zip |-> ApplyWrites(<<>>, writes)]

(***************************************************************************)
(* exportSettings and the settings branch of importExistingPack            *)
(***************************************************************************)
\* an object literal that copies the listed properties: JSON.stringify leaves out the
\* undefined ones
Pick(object, fields) == [f \in (DOMAIN object) \cap fields |-> object[f]]

\* the settings object of exportSettings
Settings(pack) ==
    [pack      |-> [name |-> pack.name, description |-> pack.description,
                    pack_format |-> pack.format],
     models    |-> pack.models,
     textures  |-> [i \in 1..Len(pack.textures) |->
                      Pick(pack.textures[i], {"id", "name", "path", "size", "dimensions",
                                              "isOptimized", "animation"})],
     fonts     |-> [i \in 1..Len(pack.fonts) |->
                      [name |-> pack.fonts[i].name,
                       providers |-> [k \in 1..Len(pack.fonts[i].providers) |->
                           Pick(pack.fonts[i].providers[k],
                                {"id", "type", "file", "fileExt", "ascent", "height", "chars",
                                 "advances", "size", "oversample", "shift", "skip"})]]],
     sounds    |-> [i \in 1..Len(pack.sounds) |->
                      Pick(pack.sounds[i], {"id", "name", "category", "sounds", "subtitle",
                                            "replace"})],
     particles |-> [i \in 1..Len(pack.particles) |->
                      Pick(pack.particles[i], {"id", "name", "textures"})],
     shaders   |-> [i \in 1..Len(pack.shaders) |->
                      Pick(pack.shaders[i], {"id", "name", "type", "content"})]]

\* data.<key> || []
OrEmpty(data, key) == IF HasField(data, key) THEN data[key] ELSE <<>>

\* the pack setResourcePack receives from a settings document that has pack and models
SettingsPack(data, fileName) ==
    [name        |-> IF data.pack.name # "" THEN data.pack.name ELSE fileName,
     description |-> data.pack.description,
     format      |-> IF data.pack.pack_format # 0 THEN data.pack.pack_format ELSE DefaultFormat,
     models      |-> OrEmpty(data, "models"),
     textures    |-> OrEmpty(data, "textures"),
     fonts       |-> OrEmpty(data, "fonts"),
     sounds      |-> OrEmpty(data, "sounds"),
     languages   |-> OrEmpty(data, "languages"),
     particles   |-> OrEmpty(data, "particles"),
     shaders     |-> OrEmpty(data, "shaders")]

(***************************************************************************)
(* importExistingPack: the texture resolver                                *)
(***************************************************************************)
\* texturePath.replace(/^minecraft:/, '')
pathWithoutMinecraft(ref) == IF ref.ns = "minecraft" THEN Ref("", ref.segs) ELSE ref

\* text.replace(/^item\//, '') for folder = "item"
StripFolder(p, folder) ==
    IF p.ns = "" /\ Len(p.segs) >= 2 /\ Head(p.segs) = folder THEN Ref("", Tail(p.segs)) ELSE p

\* .replace(/^item\//, '').replace(/^block\//, '').replace(/^entity\//, '')
StripTypeFolders(p) == StripFolder(StripFolder(StripFolder(p, "item"), "block"), "entity")

\* the keys of textureMap in insertion order; textureMap[key] is a File, hence truthy
MapKeys(textureMap) == [i \in 1..Len(textureMap) |-> textureMap[i].key]

HasKey(textureMap, p) == p \in Range(MapKeys(textureMap))

\* `item/${withoutPrefix}`
WithItem(p) == IF p.ns = "" THEN Ref("", <<"item">> \o p.segs) ELSE Ref(None, Flat(p))

\* withoutPrefix.split('/').pop() || withoutPrefix
FinalSegment(p) == IF Len(p.segs) = 1 THEN p ELSE Ref("", <<Last(p.segs)>>)

\* key.endsWith(`/${textureName}`) || key === textureName || key === `item/${textureName}`
SuffixMatch(key, textureName) ==
    /\ textureName.ns = ""
    /\ \/ (Len(key.segs) >= 2 /\ Last(key.segs) = textureName.segs[1])
       \/ key = textureName
       \/ key = WithItem(textureName)

Strategy1Matches(textureMap, ref) == HasKey(textureMap, pathWithoutMinecraft(ref))

Strategy2Matches(textureMap, ref) ==
    LET withoutPrefix == StripTypeFolders(pathWithoutMinecraft(ref))
    IN  HasKey(textureMap, WithItem(withoutPrefix)) \/ HasKey(textureMap, withoutPrefix)

\* Object.keys(textureMap).find(...): the index of the first matching key, 0 if none
Strategy3Index(textureMap, ref) ==
    LET textureName == FinalSegment(StripTypeFolders(pathWithoutMinecraft(ref)))
        keys == MapKeys(textureMap)
    IN  FirstIndexIn(keys, {k \in Range(keys) : SuffixMatch(k, textureName)}, 1)

NoKey == Ref(None, <<>>)

\* a variant that tries the final-segment match before the other strategies
ResolveTextureMutSuffixFirst(textureMap, ref) ==
    LET p == pathWithoutMinecraft(ref)
        i == Strategy3Index(textureMap, ref)
    IN  IF i # 0
        THEN [strategy |-> 3, key |-> textureMap[i].key, name |-> StripTypeFolders(textureMap[i].key)]
        ELSE [strategy |-> 0, key |-> NoKey, name |-> StripTypeFolders(p)]

\* a variant that keeps the type folder of an unresolved reference
ResolveTextureMutKeepFolder(textureMap, ref) ==
    LET p == pathWithoutMinecraft(ref)
        withoutPrefix == StripTypeFolders(p)
        i == Strategy3Index(textureMap, ref)
    IN  IF Strategy1Matches(textureMap, ref)
        THEN [strategy |-> 1, key |-> p, name |-> StripTypeFolders(p)]
        ELSE IF Strategy2Matches(textureMap, ref)
        THEN [strategy |-> 2, name |-> withoutPrefix,
              key |-> IF HasKey(textureMap, WithItem(withoutPrefix))
                      THEN WithItem(withoutPrefix) ELSE withoutPrefix]
        ELSE IF i # 0
        THEN [strategy |-> 3, key |-> textureMap[i].key, name |-> StripTypeFolders(textureMap[i].key)]
        ELSE [strategy |-> 0, key |-> NoKey, name |-> p]

\* The resolution of one texture layer: the name stored in newModel.textures[layer],
\* the strategy that produced it (0: not found, the reference kept and a warning)
\* and the textureMap key that matched.
ResolveTexture(textureMap, ref) ==
    LET p == pathWithoutMinecraft(ref)
        withoutPrefix == StripTypeFolders(p)
        i == Strategy3Index(textureMap, ref)
    IN  IF Strategy1Matches(textureMap, ref)
        THEN [strategy |-> 1, key |-> p, name |-> StripTypeFolders(p)]
        ELSE IF Strategy2Matches(textureMap, ref)
        THEN [strategy |-> 2, name |-> withoutPrefix,
              key |-> IF HasKey(textureMap, WithItem(withoutPrefix))
                      THEN WithItem(withoutPrefix) ELSE withoutPrefix]
        ELSE IF i # 0
        THEN [strategy |-> 3, key |-> textureMap[i].key, name |-> StripTypeFolders(textureMap[i].key)]
        ELSE [strategy |-> 0, key |-> NoKey, name |-> StripTypeFolders(p)]

(***************************************************************************)
(* importExistingPack: the Java Edition branch                             *)
(***************************************************************************)
\* path.startsWith("assets/minecraft/<folder>/")
UnderAssets(path, folder) ==
    Len(path.segs) > 3 /\ SubSeq(path.segs, 1, 3) = <<"assets", "minecraft", folder>>

\* an insertion-ordered object: obj[key] = value
RECURSIVE KeyIndex(_, _, _)
KeyIndex(obj, key, i) ==
    IF i > Len(obj) THEN 0
    ELSE IF obj[i].key = key THEN i ELSE KeyIndex(obj, key, i + 1)

ObjPut(obj, key, value) ==
    LET i == KeyIndex(obj, key, 1)
    IN  IF i = 0 THEN Append(obj, [key |-> key, value |-> value])
        ELSE [obj EXCEPT ![i] = [key |-> key, value |-> value]]

\* the entries the texture scan picks, in the order of Object.keys(zip.files)
TextureFiles(zip) ==
    FilterSeq(zip, {e \in Range(zip) :
        UnderAssets(e.path, "textures") /\ e.path.ext \in {"png", "jpg", "jpeg"}})

\* texturePath.replace("assets/minecraft/textures/", "").replace(/\.(png|jpg|jpeg)$/, "")
RelativePath(path) == Ref("", SubSeq(path.segs, 4, Len(path.segs)))

RECURSIVE BuildTextureMap(_, _)
BuildTextureMap(map, files) ==
    IF files = <<>> THEN map
    ELSE BuildTextureMap(ObjPut(map, RelativePath(Head(files).path), Head(files).doc.file),
                         Tail(files))

TextureMap(zip) == BuildTextureMap(<<>>, TextureFiles(zip))

ItemFiles(zip) ==
    FilterSeq(zip, {e \in Range(zip) : UnderAssets(e.path, "items") /\ e.path.ext = "json"})

has1214Structure(zip) == ItemFiles(zip) # <<>>

\* JSON.parse throws on a malformed document
Parses(doc) == doc.kind # "malformed"

\* caseItem.model?.model?.replace("minecraft:", "")
WithoutMinecraft(ref) == IF ref.ns = "minecraft" THEN Ref("", ref.segs) ELSE ref

SelectOverrides(cases) ==
    [i \in 1..Len(cases) |->
        [model |-> WithoutMinecraft(cases[i].model),
         predicate |-> [custom_model_data |-> cases[i].when]]]

\* the 1.21.4+ scan: only documents of type minecraft:select with cases are read
RECURSIVE ItemsScan(_, _)
ItemsScan(overrides, files) ==
    IF files = <<>> THEN overrides
    ELSE LET doc == Head(files).doc
             itemName == Last(Head(files).path.segs)
         IN  ItemsScan(IF Parses(doc) /\ doc.kind = "select" /\ HasField(doc, "cases")
                       THEN ObjPut(overrides, itemName, SelectOverrides(doc.cases))
                       ELSE overrides,
                       Tail(files))

\* the legacy scan: one probe per known base item
RECURSIVE LegacyScan(_, _, _)
LegacyScan(overrides, zip, items) ==
    IF items = <<>> THEN overrides
    ELSE LET doc == ZipGet(zip, ModelsItemPath(Head(items)))
         IN  LegacyScan(IF /\ doc # NoDoc
                           /\ Parses(doc)
                           /\ HasField(doc, "overrides")
                           /\ Len(doc.overrides) > 0
                        THEN ObjPut(overrides, Head(items), doc.overrides)
                        ELSE overrides,
                        zip, Tail(items))

baseItemOverrides(zip) ==
    IF has1214Structure(zip) THEN ItemsScan(<<>>, ItemFiles(zip))
    ELSE LegacyScan(<<>>, zip, MINECRAFT_ITEMS)

\* text.replace("item/", ""): the first "item/" of the text goes
RECURSIVE RemoveFirstItem(_)
RemoveFirstItem(segs) ==
    IF Len(segs) < 2 THEN segs
    ELSE IF Head(segs) = "item" THEN Tail(segs)
         ELSE <<Head(segs)>> \o RemoveFirstItem(Tail(segs))

\* override.model?.replace("minecraft:", "").replace("item/", "")
modelRefFull(ref) == Ref(WithoutMinecraft(ref).ns, RemoveFirstItem(ref.segs))

\* all (targetItem, override) pairs in the order of the two nested loops
RECURSIVE OverridePairs(_)
OverridePairs(overrides) ==
    IF overrides = <<>> THEN <<>>
    ELSE [i \in 1..Len(Head(overrides).value) |->
             [targetItem |-> Head(overrides).key, override |-> Head(overrides).value[i]]]
         \o OverridePairs(Tail(overrides))

ModelDocPath(ref) == ZipPath(<<"assets", "minecraft", "models", "item">> \o Flat(ref), "json")

\* for (const [layer, texturePath] of Object.entries(modelData.textures)): every layer
\* gets a name, whatever the resolver found
ResolvedLayers(textureMap, layers) ==
    [i \in 1..Len(layers) |->
        [layer |-> layers[i].layer, ref |-> ResolveTexture(textureMap, layers[i].ref).name]]

\* what the console reports per layer: the reference read and the strategy that hit
ResolverLog(textureMap, layers) ==
    [i \in 1..Len(layers) |->
        [layer |-> layers[i].layer, ref |-> layers[i].ref,
         strategy |-> ResolveTexture(textureMap, layers[i].ref).strategy,
         key |-> ResolveTexture(textureMap, layers[i].ref).key]]

(***************************************************************************)
(* The extended custom_model_data of an override's predicate               *)
(***************************************************************************)
\* A predicate carries a number in the field custom_model_data; an object-valued
\* custom_model_data is carried in the field custom_model_data_object, so that the
\* field that is present tells the typeof of the value.  The object is a record whose
\* fields are among floats, flags, strings and colors, serialized in that order.
\* A text is the sequence of its UTF-16 code units; floats are whole numbers.
TypeOfCmd(predicate) ==
    IF HasField(predicate, "custom_model_data") THEN "number" ELSE "object"

\* !override.predicate?.custom_model_data
NoCustomModelData(predicate) ==
    TypeOfCmd(predicate) = "number" /\ predicate.custom_model_data = 0

\* the decimal digits of a whole number, as code units
RECURSIVE Digits(_)
Digits(n) == IF n < 10 THEN <<48 + n>> ELSE Digits(n \div 10) \o <<48 + (n % 10)>>

\* items.join(",")
RECURSIVE JoinComma(_)
JoinComma(items) ==
    IF items = <<>> THEN <<>>
    ELSE IF Len(items) = 1 THEN Head(items)
         ELSE Head(items) \o <<44>> \o JoinComma(Tail(items))

\* JSON.stringify of an array whose elements are already serialized
StringifyArray(items) == <<91>> \o JoinComma(items) \o <<93>>

\* JSON.stringify of a text without characters to escape
Quote(text) == <<34>> \o text \o <<34>>

KeyText(key) ==
    CASE key = "floats"  -> <<102, 108, 111, 97, 116, 115>>
      [] key = "flags"   -> <<102, 108, 97, 103, 115>>
      [] key = "strings" -> <<115, 116, 114, 105, 110, 103, 115>>
      [] key = "colors"  -> <<99, 111, 108, 111, 114, 115>>

\* JSON.stringify of the value of one key of the object
StringifyValue(cmd, key) ==
    CASE key = "floats"  -> StringifyArray([i \in 1..Len(cmd.floats) |-> Digits(cmd.floats[i])])
      [] key = "flags"   -> StringifyArray([i \in 1..Len(cmd.flags) |->
                                IF cmd.flags[i] THEN <<116, 114, 117, 101>>
                                ELSE <<102, 97, 108, 115, 101>>])
      [] key = "strings" -> StringifyArray([i \in 1..Len(cmd.strings) |-> Quote(cmd.strings[i])])
      [] key = "colors"  -> StringifyArray([i \in 1..Len(cmd.colors) |->
                                StringifyArray([k \in 1..Len(cmd.colors[i]) |->
                                    Digits(cmd.colors[i][k])])])

\* JSON.stringify(cmd)
JsonStringify(cmd) ==
    LET keys == FilterSeq(<<"floats", "flags", "strings", "colors">>, DOMAIN cmd)
    IN  <<123>>
        \o JoinComma([i \in 1..Len(keys) |->
               Quote(KeyText(keys[i])) \o <<58>> \o StringifyValue(cmd, keys[i])])
        \o <<125>>

\* A 32-bit integer is the pair <<high, low>> of the 16-bit halves of its two's
\* complement word.
\* ((a << 5) - a + b.charCodeAt(0)) | 0
HashStep(a, code) ==
    LET shiftedLow  == (a[2] * 32) % 65536
        shiftedHigh == (a[1] * 32 + (a[2] * 32) \div 65536) % 65536
        borrow      == IF shiftedLow < a[2] THEN 1 ELSE 0
        diffLow     == (shiftedLow - a[2] + 65536) % 65536
        diffHigh    == (shiftedHigh - a[1] - borrow + 2 * 65536) % 65536
        sumLow      == diffLow + code
    IN  <<(diffHigh + sumLow \div 65536) % 65536, sumLow % 65536>>

\* what | 0 leaves in the accumulator: a 32-bit integer
IsInt32(a) == a[1] \in 0..65535 /\ a[2] \in 0..65535

\* dataStr.split("").reduce(..., 0): the accumulator is computed at every code unit
RECURSIVE HashFrom(_, _)
HashFrom(a, text) ==
    IF IsInt32(a) /\ text # <<>> THEN HashFrom(HashStep(a, Head(text)), Tail(text)) ELSE a

StringHash(text) == HashFrom(<<0, 0>>, text)

\* the sign of a 32-bit integer
IsNegative(hash) == hash[1] >= 32768

\* Math.abs(hash): a double, so the magnitude of the minimum 32-bit integer is 2^31;
\* the result is the pair of the 16-bit halves of the magnitude
MathAbs(hash) ==
    IF ~IsNegative(hash) THEN hash
    ELSE IF hash[2] = 0 THEN <<65536 - hash[1], 0>>
         ELSE <<65535 - hash[1], 65536 - hash[2]>>

\* magnitude % 10000
Mod10000(magnitude) ==
    ((magnitude[1] % 10000) * (65536 % 10000) + (magnitude[2] % 10000)) % 10000

\* a variant without Math.abs: the remainder of a negative number is not positive
SyntheticIdMutNoAbs(hash) ==
    IF IsNegative(hash) THEN 1 - Mod10000(MathAbs(hash)) ELSE Mod10000(hash) + 1

\* (Math.abs(hash) % 10000) + 1
SyntheticId(hash) == Mod10000(MathAbs(hash)) + 1

\* a variant without padStart: a component below 16 gives one digit
HexColorMutNoPad(rgb) ==
    LET digits(c) == IF c < 16 THEN <<c>> ELSE <<c \div 16, c % 16>>
    IN  [hex |-> digits(rgb[1]) \o digits(rgb[2]) \o digits(rgb[3])]

\* `#${rgb.map((c) => c.toString(16).padStart(2, "0")).join("")}`: the text of a
\* hexadecimal color, kept as the sequence of its hexadecimal digits
HexColor(rgb) ==
    [hex |-> [k \in 1..(2 * Len(rgb)) |->
                IF k % 2 = 1 THEN rgb[(k + 1) \div 2] \div 16 ELSE rgb[k \div 2] % 16]]

\* the fields of newModel that the predicate decides
DecodePredicate(predicate) ==
    IF TypeOfCmd(predicate) = "number"
    THEN [customModelData |-> predicate.custom_model_data,
          customModelDataFloats |-> <<>>, customModelDataFlags |-> <<>>,
          customModelDataStrings |-> <<>>, customModelDataColors |-> <<>>]
    ELSE LET cmd == predicate.custom_model_data_object
         IN  [customModelData        |-> SyntheticId(StringHash(JsonStringify(cmd))),
              customModelDataFloats  |-> IF HasField(cmd, "floats") THEN cmd.floats ELSE <<>>,
              customModelDataFlags   |-> IF HasField(cmd, "flags") THEN cmd.flags ELSE <<>>,
              customModelDataStrings |-> IF HasField(cmd, "strings") THEN cmd.strings ELSE <<>>,
              customModelDataColors  |-> IF HasField(cmd, "colors")
                                         THEN [i \in 1..Len(cmd.colors) |-> HexColor(cmd.colors[i])]
                                         ELSE <<>>]

\* one model processing task: the model document read and decoded, or null
ImportModel(zip, textureMap, pair) ==
    LET ref == modelRefFull(pair.override.model)
        doc == ZipGet(zip, ModelDocPath(ref))
        layers == IF HasField(doc, "textures") THEN doc.textures ELSE <<>>
    IN  IF ~Parses(doc) THEN [ok |-> FALSE]
        ELSE [ok    |-> TRUE,
              model |-> [name            |-> Last(ref.segs),
                         customModelData |-> DecodePredicate(pair.override.predicate).customModelData,
                         customModelDataFloats  |->
                             DecodePredicate(pair.override.predicate).customModelDataFloats,
                         customModelDataFlags   |->
                             DecodePredicate(pair.override.predicate).customModelDataFlags,
                         customModelDataStrings |->
                             DecodePredicate(pair.override.predicate).customModelDataStrings,
                         customModelDataColors  |->
                             DecodePredicate(pair.override.predicate).customModelDataColors,
                         parent          |-> IF HasField(doc, "parent") /\ doc.parent # ""
                                             THEN doc.parent ELSE "item/generated",
                         textures        |-> ResolvedLayers(textureMap, layers),
                         targetItem      |-> pair.targetItem],
              log   |-> ResolverLog(textureMap, layers)]

\* the tasks queued by the loop over baseItemOverrides, in submission order
RECURSIVE ModelTasks(_, _, _, _)
ModelTasks(zip, textureMap, pairs, processedModels) ==
    IF pairs = <<>> THEN <<>>
    ELSE LET override == Head(pairs).override
             ref == modelRefFull(override.model)
         IN  IF NoCustomModelData(override.predicate) \/ ref \in processedModels
             THEN ModelTasks(zip, textureMap, Tail(pairs), processedModels)
             ELSE (IF ZipGet(zip, ModelDocPath(ref)) # NoDoc
                   THEN <<ImportModel(zip, textureMap, Head(pairs))>> ELSE <<>>)
                  \o ModelTasks(zip, textureMap, Tail(pairs), processedModels \cup {ref})

ModelResults(zip) ==
    LET tasks == ModelTasks(zip, TextureMap(zip), OverridePairs(baseItemOverrides(zip)), {})
    IN  FilterSeq(tasks, {t \in Range(tasks) : t.ok})

\* for (const model of modelResults) if (model) importedPack.models.push(model)
ImportedModels(zip) ==
    LET modelResults == ModelResults(zip)
    IN  [i \in 1..Len(modelResults) |-> modelResults[i].model]

PackMeta(zip) == ZipGet(zip, ZipPath(<<"pack">>, "mcmeta"))

\* the font documents the font scan picks
FontFiles(zip) ==
    FilterSeq(zip, {e \in Range(zip) : UnderAssets(e.path, "font") /\ e.path.ext = "json"})

\* newProvider: the fields of the document's provider, copied
ImportedProvider(provider) ==
    IF provider.type = "bitmap"
    THEN [type |-> "bitmap", file |-> provider.file,
          ascent |-> provider.ascent, height |-> provider.height]
    ELSE [type |-> provider.type]

\* for (const fontPath of fontFiles) importedPack.fonts.push(newFont)
ImportedFonts(zip) ==
    LET files == FontFiles(zip)
    IN  [i \in 1..Len(files) |->
            [name      |-> Last(files[i].path.segs),
             providers |-> IF HasField(files[i].doc, "providers")
                           THEN [k \in 1..Len(files[i].doc.providers) |->
                                    ImportedProvider(files[i].doc.providers[k])]
                           ELSE <<>>]]

\* for (const [soundName, soundConfig] of Object.entries(soundsData))
ImportedSounds(zip) ==
    LET doc == ZipGet(zip, ZipPath(<<"assets", "minecraft", "sounds">>, "json"))
    IN  IF doc = NoDoc \/ ~HasField(doc, "entries") THEN <<>>
        ELSE [i \in 1..Len(doc.entries) |->
                [name |-> doc.entries[i].name, category |-> doc.entries[i].category,
                 sounds |-> doc.entries[i].sounds]]

\* for (const particlePath of particleFiles) importedPack.particles.push(newParticle)
ImportedParticles(zip) ==
    LET files == FilterSeq(zip, {e \in Range(zip) :
                     UnderAssets(e.path, "particles") /\ e.path.ext = "json"})
    IN  [i \in 1..Len(files) |->
            [name |-> Last(files[i].path.segs),
             textures |-> IF HasField(files[i].doc, "textures")
                          THEN files[i].doc.textures ELSE <<>>]]

\* for (const langPath of langFiles) importedPack.languages.push(newLanguage)
ImportedLanguages(zip) ==
    LET files == FilterSeq(zip, {e \in Range(zip) :
                     UnderAssets(e.path, "lang") /\ e.path.ext = "json"})
    IN  [i \in 1..Len(files) |->
            [code |-> Last(files[i].path.segs), name |-> Last(files[i].path.segs),
             content |-> IF HasField(files[i].doc, "content") THEN files[i].doc.content ELSE <<>>]]

\* for (const shaderPath of shaderFiles) importedPack.shaders.push(newShader)
ImportedShaders(zip) ==
    LET files == FilterSeq(zip, {e \in Range(zip) :
                     UnderAssets(e.path, "shaders") /\ e.path.ext \in {"vsh", "fsh", "json"}})
    IN  [i \in 1..Len(files) |->
            [name |-> Last(files[i].path.segs),
             type |-> IF files[i].path.ext = "vsh" THEN "vertex"
                      ELSE IF files[i].path.ext = "fsh" THEN "fragment" ELSE "program",
             content |-> files[i].doc]]

\* the documents of a Java archive that importExistingPack parses outside any try of
\* their own: pack.mcmeta, the fonts, sounds.json, the particles and the languages
JavaUnguarded(zip) ==
    FilterSeq(zip, {e \in Range(zip) :
        \/ e.path = ZipPath(<<"pack">>, "mcmeta")
        \/ UnderAssets(e.path, "font") /\ e.path.ext = "json"
        \/ e.path = ZipPath(<<"assets", "minecraft", "sounds">>, "json")
        \/ UnderAssets(e.path, "particles") /\ e.path.ext = "json"
        \/ UnderAssets(e.path, "lang") /\ e.path.ext = "json"})

\* the importedPack of the Java branch, given the texture list
ImportJavaPackFrom(file, textures) ==
    LET zip == file.zip
        meta == PackMeta(zip)
    IN  [name        |-> file.name,
         description |-> IF meta # NoDoc THEN meta.description ELSE "",
         format      |-> IF meta # NoDoc /\ meta.pack_format # 0 THEN meta.pack_format ELSE DefaultFormat,
         models      |-> ImportedModels(zip),
         textures    |-> textures,
         fonts       |-> ImportedFonts(zip),
         sounds      |-> ImportedSounds(zip),
         languages   |-> ImportedLanguages(zip),
         particles   |-> ImportedParticles(zip),
         shaders     |-> ImportedShaders(zip)]

(***************************************************************************)
(* importBedrockPack                                                       *)
(***************************************************************************)
\* path.startsWith("<prefix>/")
Under(path, prefix) ==
    Len(path.segs) > Len(prefix) /\ SubSeq(path.segs, 1, Len(prefix)) = prefix

\* detectPackEdition
detectPackEdition(zip) ==
    IF ZipGet(zip, ZipPath(<<"manifest">>, "json")) # NoDoc THEN "bedrock" ELSE "java"

BedrockTextureFiles(zip) ==
    FilterSeq(zip, {e \in Range(zip) :
        Under(e.path, <<"textures">>) /\ e.path.ext \in {"png", "jpg", "jpeg"}})

\* path.startsWith("models/") && path.endsWith(".geo.json")
GeometryFiles(zip) ==
    FilterSeq(zip, {e \in Range(zip) : Under(e.path, <<"models">>) /\ e.path.ext = "geo.json"})

\* the documents of a Bedrock archive that importBedrockPack parses, none in a try:
\* the manifest, the geometries, the sound definitions and the particles
BedrockUnguarded(zip) ==
    FilterSeq(zip, {e \in Range(zip) :
        \/ e.path = ZipPath(<<"manifest">>, "json")
        \/ Under(e.path, <<"models">>) /\ e.path.ext = "geo.json"
        \/ e.path = ZipPath(<<"sounds", "sound_definitions">>, "json")
        \/ Under(e.path, <<"particles">>) /\ e.path.ext = "json"})

\* the importedPack of importBedrockPack, given the texture list
ImportBedrockPackFrom(file, textures) ==
    LET zip == file.zip
        manifest == ZipGet(zip, ZipPath(<<"manifest">>, "json"))
        geometries == GeometryFiles(zip)
    IN  [name        |-> IF HasField(manifest, "name") /\ manifest.name # ""
                         THEN manifest.name ELSE file.name,
         description |-> IF HasField(manifest, "description") THEN manifest.description ELSE "",
         format      |-> DefaultFormat,
         models      |-> [i \in 1..Len(geometries) |->
                            [name |-> Last(geometries[i].path.segs), customModelData |-> 1,
                             customModelDataFloats |-> <<>>, customModelDataFlags |-> <<>>,
                             customModelDataStrings |-> <<>>, customModelDataColors |-> <<>>,
                             parent |-> "item/generated", textures |-> <<>>,
                             targetItem |-> "stick"]],
         textures    |-> textures,
         fonts       |-> <<>>,
         sounds      |-> <<>>,
         languages   |-> <<>>,
         particles   |-> <<>>,
         shaders     |-> <<>>]

(***************************************************************************)
(* importExistingPack on an archive: both branches                         *)
(***************************************************************************)
\* the texture files whose dimensions the import probes, in the order of
\* Object.keys(zip.files)
ProbedFiles(zip) ==
    IF detectPackEdition(zip) = "bedrock" THEN BedrockTextureFiles(zip) ELSE TextureFiles(zip)

\* what the promise of one texture file resolves to
TextureResult(zip, i) ==
    LET e == ProbedFiles(zip)[i]
    IN  [name |-> Last(e.path.segs),
         path |-> IF detectPackEdition(zip) = "bedrock"
                  THEN Ref("", e.path.segs) ELSE RelativePath(e.path),
         file |-> e.doc.file]

\* a variant that yields the values in the order the promises settled in
PromiseAllMutSettleOrder(results, settled) ==
    [k \in 1..Len(settled) |-> results[settled[k]]]

\* Promise.all(promises): the values by position in the array of promises, whatever
\* the order they settled in
PromiseAll(results, settled) == results

\* the document parsed before the texture promises are made
HeadDocument(zip) ==
    IF detectPackEdition(zip) = "bedrock"
    THEN ZipGet(zip, ZipPath(<<"manifest">>, "json")) ELSE PackMeta(zip)

\* a JSON.parse that throws to the catch of importExistingPack before the texture
\* promises are made
ThrowsEarly(zip) == HeadDocument(zip) # NoDoc /\ ~Parses(HeadDocument(zip))

\* a JSON.parse that throws to the catch of importExistingPack after Promise.all
ThrowsLate(zip) ==
    \E e \in Range(IF detectPackEdition(zip) = "bedrock"
                    THEN BedrockUnguarded(zip) ELSE JavaUnguarded(zip)) : ~Parses(e.doc)

\* importedPack, given the results of the texture promises
ImportedPackFrom(file, textures) ==
    IF detectPackEdition(file.zip) = "bedrock"
    THEN ImportBedrockPackFrom(file, textures)
    ELSE ImportJavaPackFrom(file, textures)

(***************************************************************************)
(* The merge engine: analyzeMergeConflicts and executeMerge                *)
(*                                                                         *)
(* A path of a pack to merge is [folders, name, ext]: its folder segments, *)
(* the file name without extension as its "_"-separated tokens, and the    *)
(* extension ("" when the name has none). An entry of such a pack is       *)
(* [path, dir, content]; the packs are readable archives.                  *)
(***************************************************************************)
MergePath(folders, name, ext) == [folders |-> folders, name |-> name, ext |-> ext]

\* path.includes("textures/")
InTextures(path) == "textures" \in Range(path.folders)

\* path.includes("models/")
InModels(path) == "models" \in Range(path.folders)

\* new File([blob], path.split("/").pop() || "texture.png")
BlobFile(path, content) ==
    [name |-> [name |-> path.name, ext |-> path.ext], content |-> content]

\* handleMergePackUpload: the packs a chosen file adds to the list
newPacks(file) ==
    IF file.ext = "zip" THEN <<[name |-> file.stem, file |-> file]>> ELSE <<>>

\* textureMap.get(path)!.push(item), after textureMap.set(path, []) for a new path
MapPush(textureMap, path, item) ==
    LET i == KeyIndex(textureMap, path, 1)
    IN  IF i = 0 THEN Append(textureMap, [key |-> path, value |-> <<item>>])
        ELSE [textureMap EXCEPT ![i].value = Append(textureMap[i].value, item)]

\* the inner loop of analyzeMergeConflicts over the entries of one pack, from entry i
RECURSIVE AnalyzeEntries(_, _, _, _)
AnalyzeEntries(textureMap, pack, entries, i) ==
    IF i > Len(entries) THEN textureMap
    ELSE LET e == entries[i]
         IN  IF ~e.dir /\ InTextures(e.path)
             THEN AnalyzeEntries(
                      MapPush(textureMap, e.path,
                              [packName |-> pack.name, file |-> BlobFile(e.path, e.content)]),
                      pack, entries, i + 1)
             ELSE AnalyzeEntries(textureMap, pack, entries, i + 1)

\* the outer loop of analyzeMergeConflicts over the packs, from pack i
RECURSIVE AnalyzePacks(_, _, _)
AnalyzePacks(textureMap, packs, i) ==
    IF i > Len(packs) THEN textureMap
    ELSE AnalyzePacks(AnalyzeEntries(textureMap, packs[i], packs[i].file.zip, 1), packs, i + 1)

\* a variant that reports every texture path as a conflict
IsConflictMutAnyPath(packs) == Len(packs) > 0

\* if (packs.length > 1)
IsConflict(packs) == Len(packs) > 1

\* the conflicts list analyzeMergeConflicts hands to setMergeConflicts
RECURSIVE ConflictsOf(_, _)
ConflictsOf(textureMap, i) ==
    IF i > Len(textureMap) THEN <<>>
    ELSE (IF IsConflict(textureMap[i].value)
          THEN <<[path |-> textureMap[i].key, packs |-> textureMap[i].value,
                  resolution |-> "overwrite"]>>
          ELSE <<>>) \o ConflictsOf(textureMap, i + 1)

AnalyzeResult(packs) == ConflictsOf(AnalyzePacks(<<>>, packs, 1), 1)

\* mergeConflicts.find((c) => c.path === path): its index, 0 when undefined
RECURSIVE FindConflict(_, _, _)
FindConflict(conflicts, path, i) ==
    IF i > Len(conflicts) THEN 0
    ELSE IF conflicts[i].path = path THEN i ELSE FindConflict(conflicts, path, i + 1)

\* path.replace(/(\.[^.]+)$/, `_${pack.name}$1`): nothing to replace without extension
RenamedPath(path, packName) ==
    IF path.ext = "" THEN path ELSE [path EXCEPT !.name = Append(path.name, packName)]

\* a variant in which skip discards every contributor, the first included
MergeTextureMutSkipDropsAll(mergedTextures, conflicts, pack, e) ==
    LET c == FindConflict(conflicts, e.path, 1)
        newPath == RenamedPath(e.path, pack.name)
    IN  IF c # 0 /\ conflicts[c].resolution = "skip"
        THEN mergedTextures
        ELSE IF c # 0 /\ conflicts[c].resolution = "rename"
        THEN ObjPut(mergedTextures, newPath, BlobFile(newPath, e.content))
        ELSE ObjPut(mergedTextures, e.path, BlobFile(e.path, e.content))

\* one pass of the loop body of executeMerge over a texture entry
MergeTexture(mergedTextures, conflicts, pack, e) ==
    LET c == FindConflict(conflicts, e.path, 1)
        newPath == RenamedPath(e.path, pack.name)
    IN  IF c # 0 /\ conflicts[c].resolution = "skip" /\ KeyIndex(mergedTextures, e.path, 1) # 0
        THEN mergedTextures
        ELSE IF c # 0 /\ conflicts[c].resolution = "rename"
        THEN ObjPut(mergedTextures, newPath, BlobFile(newPath, e.content))
        ELSE ObjPut(mergedTextures, e.path, BlobFile(e.path, e.content))

\* the inner loop of executeMerge over the entries of one pack, from entry i;
\* maps is [textures, models]
RECURSIVE MergeEntries(_, _, _, _, _)
MergeEntries(maps, conflicts, pack, entries, i) ==
    IF i > Len(entries) THEN maps
    ELSE LET e == entries[i]
             next == IF e.dir THEN maps
                     ELSE IF InTextures(e.path)
                     THEN [maps EXCEPT !.textures = MergeTexture(maps.textures, conflicts, pack, e)]
                     ELSE IF InModels(e.path)
                     THEN [maps EXCEPT !.models = ObjPut(maps.models, e.path, e.content)]
                     ELSE maps
         IN  MergeEntries(next, conflicts, pack, entries, i + 1)

\* the outer loop of executeMerge over the packs, from pack i
RECURSIVE MergePacksFrom(_, _, _, _)
MergePacksFrom(maps, conflicts, packs, i) ==
    IF i > Len(packs) THEN maps
    ELSE MergePacksFrom(MergeEntries(maps, conflicts, packs[i], packs[i].file.zip, 1),
                        conflicts, packs, i + 1)

MergeResult(packs, conflicts) ==
    MergePacksFrom([textures |-> <<>>, models |-> <<>>], conflicts, packs, 1)

\* addTexture(file) for every merged texture, in the order of mergedTextures.entries()
AddedTextures(mergedTextures) ==
    [i \in 1..Len(mergedTextures) |->
        [name |-> mergedTextures[i].value.name.name, file |-> mergedTextures[i].value]]

(***************************************************************************)
(* Input domains                                                           *)
(***************************************************************************)
Formats == {34, DispatchFormat, DefaultFormat}
ModelNames == {"gem", "stick"}
TargetItemInputs == {"stick", "bow"}
GemLayers == <<[layer |-> "layer0", ref |-> Ref("", <<"gem">>)]>>
LayerInputs == {<<>>, GemLayers}
TextureInputs == {<<>>, <<[name |-> "gem", file |-> "gem.png"]>>}

\* the models of one pack are given the same layer map
ModelInputs(layers) ==
    [name : ModelNames, customModelData : 0..MaxId, parent : {"item/generated"},
     textures : {layers}, targetItem : TargetItemInputs]

NoArchive ==
    [outcome |-> "none", errors |-> <<>>, pack |-> <<>>, edition |-> "java",
     writes |-> <<>>, zip |-> <<>>]

NoFile == [name |-> "", zip |-> <<>>, readable |-> FALSE]
NoImport ==
    [pc |-> "idle", done |-> FALSE, file |-> NoFile, source |-> NoArchive,
     before |-> <<>>, probes |-> <<>>, settled |-> <<>>,
     models |-> <<>>, textures |-> <<>>, textureMap |-> <<>>, log |-> <<>>]
IdleRun == [pc |-> "idle", i |-> 0, enabledVersions |-> <<>>, pack |-> <<>>, edition |-> "java"]

\* the entries of the packs offered to the merge
GemPng == MergePath(<<"assets", "minecraft", "textures", "item">>, <<"gem">>, "png")
GemAPng == MergePath(<<"assets", "minecraft", "textures", "item">>, <<"gem", "A">>, "png")
TexturesDir == MergePath(<<"assets", "minecraft", "textures">>, <<>>, "")
GemJson == MergePath(<<"assets", "minecraft", "models", "item">>, <<"gem">>, "json")

\* an archive with the given paths in this order; every entry has a content of its own
MergeZip(id, paths) ==
    [i \in 1..Len(paths) |->
        [path |-> paths[i], dir |-> (paths[i].name = <<>>), content |-> <<id, i>>]]

MergeFileInputs ==
    {[stem |-> "A", ext |-> "zip", zip |-> MergeZip("a1", <<GemPng, GemAPng>>)],
     [stem |-> "A", ext |-> "zip", zip |-> MergeZip("a2", <<GemAPng, GemPng>>)],
     [stem |-> "B", ext |-> "zip", zip |-> MergeZip("b1", <<TexturesDir, GemPng, GemJson>>)],
     [stem |-> "notes", ext |-> "txt", zip |-> <<>>]}

Resolutions == {"overwrite", "skip", "rename"}

NoAnalysis == [done |-> FALSE, packs |-> <<>>, conflicts |-> <<>>]
NoMerge ==
    [done |-> FALSE, timer |-> FALSE, packs |-> <<>>, conflicts |-> <<>>,
     mergedTextures |-> <<>>, mergedModels |-> <<>>]

\* the first entries of the initial versionConfigs list
InitialVersionConfigs ==
    <<[format |-> DefaultFormat, enabled |-> TRUE],
      [format |-> DispatchFormat, enabled |-> FALSE],
      [format |-> 34, enabled |-> FALSE]>>

(***************************************************************************)
(* Actions: export                                                         *)
(***************************************************************************)
\* a timer whose callback clears isProcessing: the 1000 ms one of generateZip, the
\* 500 ms ones of importExistingPack and analyzeMergeConflicts
TimerFires ==
    /\ flagTimers > 0
    /\ flagTimers' = flagTimers - 1
    /\ isProcessing' = FALSE
    /\ UNCHANGED <<editorVars, validationResults, resourcePack, packEdition, versionConfigs, mv, mvRuns, download,
                   upload, imported, mergePacks, mergeConflicts, analysis, merge>>

\* the Download button: generateZip on the rendered state
GenerateZip ==
    /\ ~isProcessing
    /\ mv.pc \in {"idle", "done"}
    /\ download' = GenerateZipResult(resourcePack, packEdition)
    /\ isProcessing' = (download'.outcome = "archive")
    /\ flagTimers' = IF download'.outcome = "archive" THEN flagTimers + 1 ELSE flagTimers
    /\ UNCHANGED <<editorVars, validationResults, resourcePack, packEdition, versionConfigs, mv, mvRuns,
                   upload, imported, mergePacks, mergeConflicts, analysis, merge>>

\* the Validate button: validatePack on the rendered state
ValidatePack ==
    /\ ~isProcessing
    /\ validationResults' = [isValid |-> allErrors(resourcePack) = <<>>,
                              errors  |-> allErrors(resourcePack),
                              pack    |-> resourcePack]
    /\ isProcessing' = TRUE
    /\ flagTimers' = flagTimers + 1
    /\ UNCHANGED <<editorVars, resourcePack, packEdition, versionConfigs, mv, mvRuns, download,
                   upload, imported, mergePacks, mergeConflicts, analysis, merge>>

\* the checkbox of one version
ToggleVersion(i) ==
    /\ mv.pc \in {"idle", "done"}
    /\ versionConfigs' = [versionConfigs EXCEPT ![i].enabled = ~versionConfigs[i].enabled]
    /\ UNCHANGED <<editorVars, validationResults, resourcePack, packEdition, isProcessing, flagTimers, mv, mvRuns, download,
                   upload, imported, mergePacks, mergeConflicts, analysis, merge>>

enabledVersions(configs) == FilterSeq(configs, {v \in Range(configs) : v.enabled})

\* generateMultiVersionPacks up to the loop: the callback keeps the resourcePack,
\* the packEdition and the generateZip of the render it was created in
MVStart ==
    /\ ~isProcessing
    /\ mv.pc \in {"idle", "done"}
    /\ enabledVersions(versionConfigs) # <<>>
    /\ isProcessing' = TRUE
    /\ mv' = [pc |-> "setFormat", i |-> 1, enabledVersions |-> enabledVersions(versionConfigs),
              pack |-> resourcePack, edition |-> packEdition]
    /\ mvRuns' = <<>>
    /\ UNCHANGED <<editorVars, validationResults, resourcePack, packEdition, versionConfigs, flagTimers, download,
                   upload, imported, mergePacks, mergeConflicts, analysis, merge>>

\* setResourcePack((prev) => ({ ...prev, format: versionConfig.format }))
MVSetFormat ==
    /\ mv.pc = "setFormat"
    /\ mv.i <= Len(mv.enabledVersions)
    /\ resourcePack' = [resourcePack EXCEPT !.format = mv.enabledVersions[mv.i].format]
    /\ mv' = [mv EXCEPT !.pc = "generateZip"]
    /\ UNCHANGED <<editorVars, validationResults, packEdition, versionConfigs, isProcessing, flagTimers, mvRuns, download,
                   upload, imported, mergePacks, mergeConflicts, analysis, merge>>

\* the pack the awaited generateZip reads: the one of the closure
ZipInput(run, state) == run.pack

\* await generateZip()
MVGenerateZip ==
    /\ mv.pc = "generateZip"
    /\ LET result == GenerateZipResult(ZipInput(mv, resourcePack), mv.edition)
       IN  /\ mvRuns' = Append(mvRuns, result)
           /\ isProcessing' = (result.outcome = "archive")
           /\ flagTimers' = IF result.outcome = "archive" THEN flagTimers + 1 ELSE flagTimers
    /\ mv' = [mv EXCEPT !.pc = "restore"]
    /\ UNCHANGED <<editorVars, validationResults, resourcePack, packEdition, versionConfigs, download,
                   upload, imported, mergePacks, mergeConflicts, analysis, merge>>

\* a variant that reads the format from the current state
originalFormatMutLeaveSubstituted(run, state) == state.format

\* const originalFormat = resourcePack.format, read from the closure
originalFormat(run, state) == run.pack.format

\* setResourcePack((prev) => ({ ...prev, format: originalFormat }))
MVRestore ==
    /\ mv.pc = "restore"
    /\ resourcePack' = [resourcePack EXCEPT !.format = originalFormat(mv, resourcePack)]
    /\ mv' = [mv EXCEPT !.pc = "delay"]
    /\ UNCHANGED <<editorVars, validationResults, packEdition, versionConfigs, isProcessing, flagTimers, mvRuns, download,
                   upload, imported, mergePacks, mergeConflicts, analysis, merge>>

\* await new Promise((resolve) => setTimeout(resolve, 1000)): it ends after the
\* timers set before it with the same delay
MVDelay ==
    /\ mv.pc = "delay"
    /\ flagTimers = 0
    /\ mv' = [mv EXCEPT !.pc = "setFormat", !.i = mv.i + 1]
    /\ UNCHANGED <<editorVars, validationResults, resourcePack, packEdition, versionConfigs, isProcessing, flagTimers, mvRuns,
                   download, upload, imported, mergePacks, mergeConflicts, analysis, merge>>

\* after the loop: setIsProcessing(false)
MVFinish ==
    /\ mv.pc = "setFormat"
    /\ mv.i > Len(mv.enabledVersions)
    /\ isProcessing' = FALSE
    /\ mv' = [mv EXCEPT !.pc = "done"]
    /\ UNCHANGED <<editorVars, validationResults, resourcePack, packEdition, versionConfigs, flagTimers, mvRuns, download,
                   upload, imported, mergePacks, mergeConflicts, analysis, merge>>

(***************************************************************************)
(* Actions: import                                                         *)
(***************************************************************************)
\* importExistingPack(file) of a Java Edition archive; source is the export the file
\* came from, when it is one
\* importExistingPack(file) on a .zip file, up to the await of Promise.all over the
\* texture promises: the archive is loaded, the edition detected and (Java) selected,
\* the head document parsed, one promise made per texture file
StartedImport(file, source) ==
    [NoImport EXCEPT !.pc = "probing", !.file = file, !.source = source,
                     !.before = [pack |-> resourcePack, edition |-> packEdition],
                     !.probes = [i \in 1..Len(ProbedFiles(file.zip)) |-> "pending"]]

ImportStart(file, source) ==
    /\ imported.pc # "probing"
    /\ IF ~file.readable \/ ThrowsEarly(file.zip)
       THEN /\ imported' = [StartedImport(file, source) EXCEPT !.pc = "error", !.probes = <<>>]
            /\ isProcessing' = FALSE
       ELSE /\ imported' = StartedImport(file, source)
            /\ isProcessing' = TRUE
    /\ packEdition' = IF file.readable /\ detectPackEdition(file.zip) = "java"
                       THEN "java" ELSE packEdition
    /\ UNCHANGED <<editorVars, validationResults, resourcePack, versionConfigs, flagTimers, mv, mvRuns,
                   download, upload, mergePacks, mergeConflicts, analysis, merge>>

\* img.onload of one texture: getImageDimensions resolves and so does the promise
ProbeLoads(i) ==
    /\ imported.pc = "probing"
    /\ i \in 1..Len(imported.probes)
    /\ imported.probes[i] = "pending"
    /\ imported' = [imported EXCEPT !.probes[i] = "loaded", !.settled = Append(@, i)]
    /\ UNCHANGED <<editorVars, exportVars, upload, mergePacks, mergeConflicts, analysis, merge>>

\* the image of one texture does not decode: onload never fires and, there being no
\* onerror, the promise of getImageDimensions never settles
ProbeNeverLoads(i) ==
    /\ imported.pc = "probing"
    /\ i \in 1..Len(imported.probes)
    /\ imported.probes[i] = "pending"
    /\ imported' = [imported EXCEPT !.probes[i] = "stuck"]
    /\ UNCHANGED <<editorVars, exportVars, upload, mergePacks, mergeConflicts, analysis, merge>>

\* the guard of ImportFinish: Promise.all has settled and the continuation is ready
FinishReady ==
    /\ imported.pc = "probing"
    /\ \A i \in 1..Len(imported.probes) : imported.probes[i] = "loaded"
    /\ flagTimers < MaxTimers

\* the continuation after await Promise.all: the rest of the import, ending in
\* setResourcePack and the 500 ms timer or in the catch
ImportFinish ==
    /\ FinishReady
    /\ LET file == imported.file
           edition == detectPackEdition(file.zip)
           failed == ThrowsLate(file.zip)
           textureResults ==
               PromiseAll([i \in 1..Len(imported.probes) |-> TextureResult(file.zip, i)],
                          imported.settled)
           modelResults == IF edition = "bedrock" \/ failed THEN <<>> ELSE ModelResults(file.zip)
           importedPack == IF failed THEN resourcePack ELSE ImportedPackFrom(file, textureResults)
       IN  /\ resourcePack' = importedPack
           /\ packEdition' = IF edition = "bedrock" /\ ~failed THEN "bedrock" ELSE packEdition
           /\ imported' =
                 IF failed THEN [imported EXCEPT !.pc = "error"]
                 ELSE [imported EXCEPT
                          !.pc = "done", !.done = TRUE,
                          !.models = importedPack.models,
                          !.textures = textureResults,
                          !.textureMap = IF edition = "bedrock" THEN <<>>
                                         ELSE TextureMap(file.zip),
                          !.log = [i \in 1..Len(modelResults) |-> modelResults[i].log]]
           /\ isProcessing' = IF failed THEN FALSE ELSE isProcessing
           /\ flagTimers' = IF failed THEN flagTimers ELSE flagTimers + 1
    /\ UNCHANGED <<editorVars, validationResults, versionConfigs, mv, mvRuns, download, upload,
                   mergePacks, mergeConflicts, analysis, merge>>

\* the user imports the archive the last Download delivered
ImportDownload ==
    /\ download.outcome = "archive"
    /\ download.edition = "java"
    /\ ImportStart([name |-> "pack", zip |-> download.zip, readable |-> TRUE], download)

\* the user imports the file at hand
ImportUpload ==
    /\ upload # NoFile
    /\ ImportStart(upload, NoArchive)

(***************************************************************************)
(* Actions: merge                                                          *)
(***************************************************************************)
\* behaviours are followed up to the end of the first merge: after executeMerge only
\* its timer is followed, which empties both lists and leaves the tab as it started
MergeSessionOpen == ~merge.done

\* handleMergePackUpload(files) with one chosen file
MergePackUpload(file) ==
    /\ MergeSessionOpen
    /\ Len(mergePacks) + Len(newPacks(file)) <= MaxPacks
    /\ mergePacks' = mergePacks \o newPacks(file)
    /\ UNCHANGED <<editorVars, exportVars, importVars, mergeConflicts, analysis, merge>>

\* the Remove button of a pack: setMergePacks((prev) => prev.filter((_, i) => i !== index))
RemoveMergePack(index) ==
    /\ MergeSessionOpen
    /\ index \in 1..Len(mergePacks)
    /\ mergePacks' = [i \in 1..(Len(mergePacks) - 1) |->
                         IF i < index THEN mergePacks[i] ELSE mergePacks[i + 1]]
    /\ UNCHANGED <<editorVars, exportVars, importVars, mergeConflicts, analysis, merge>>

\* the Analyze Conflicts button, shown while there are packs
AnalyzeMergeConflicts ==
    /\ ~isProcessing
    /\ MergeSessionOpen
    /\ Len(mergePacks) > 0
    /\ flagTimers < MaxTimers
    /\ mergeConflicts' = AnalyzeResult(mergePacks)
    /\ analysis' = [done |-> TRUE, packs |-> mergePacks, conflicts |-> mergeConflicts']
    /\ isProcessing' = TRUE
    /\ flagTimers' = flagTimers + 1
    /\ UNCHANGED <<editorVars, validationResults, resourcePack, packEdition, versionConfigs, mv, mvRuns, download,
                   importVars, mergePacks, merge>>

\* the resolution select of a conflict
SetResolution(index, resolution) ==
    /\ MergeSessionOpen
    /\ index \in 1..Len(mergeConflicts)
    /\ mergeConflicts' = [mergeConflicts EXCEPT ![index].resolution = resolution]
    /\ UNCHANGED <<editorVars, exportVars, importVars, mergePacks, analysis, merge>>

\* the Execute Merge button, shown while there are conflicts
ExecuteMerge ==
    /\ ~isProcessing
    /\ MergeSessionOpen
    /\ Len(mergeConflicts) > 0
    /\ LET maps == MergeResult(mergePacks, mergeConflicts)
       IN  /\ merge' = [done |-> TRUE, timer |-> TRUE, packs |-> mergePacks,
                        conflicts |-> mergeConflicts, mergedTextures |-> maps.textures,
                        mergedModels |-> maps.models]
           /\ resourcePack' = [resourcePack EXCEPT
                                  !.textures = @ \o AddedTextures(maps.textures)]
    /\ isProcessing' = TRUE
    /\ UNCHANGED <<editorVars, validationResults, packEdition, versionConfigs, flagTimers, mv, mvRuns, download,
                   importVars, mergePacks, mergeConflicts, analysis>>

\* the 500 ms timer of executeMerge
MergeTimerFires ==
    /\ merge.timer
    /\ isProcessing' = FALSE
    /\ mergePacks' = <<>>
    /\ mergeConflicts' = <<>>
    /\ merge' = [merge EXCEPT !.timer = FALSE]
    /\ UNCHANGED <<editorVars, validationResults, resourcePack, packEdition, versionConfigs, flagTimers, mv, mvRuns,
                   download, importVars, analysis>>

(***************************************************************************)
(* Specifications                                                          *)
(***************************************************************************)
(***************************************************************************)
(* Actions: the editor                                                     *)
(***************************************************************************)
\* let n = 1; while (existingCustomModelData.includes(n)) n++
RECURSIVE FirstFreeFrom(_, _)
FirstFreeFrom(n, used) == IF n \in used THEN FirstFreeFrom(n + 1, used) ELSE n

newCustomModelData(models) ==
    FirstFreeFrom(1, {models[i].customModelData : i \in 1..Len(models)})

\* addModel(): the identifier and the name come from the models of the last render,
\* the new model is appended to the models of the moment
AddModel ==
    /\ Len(resourcePack.models) < MaxModels
    /\ resourcePack' =
          [resourcePack EXCEPT !.models =
              Append(@, [name |-> "New Model " \o ToString(Len(rendered) + 1),
                         customModelData |-> newCustomModelData(rendered),
                         parent |-> "item/generated", textures |-> <<>>,
                         targetItem |-> "stick",
                         customModelDataFloats |-> <<>>, customModelDataFlags |-> <<>>,
                         customModelDataStrings |-> <<>>, customModelDataColors |-> <<>>])]
    /\ UNCHANGED <<packEdition, versionConfigs, isProcessing, flagTimers, mv, mvRuns, download,
                   validationResults, upload, imported, mergePacks, mergeConflicts, analysis,
                   merge, rendered, textureWorker, zipWorker>>

\* React renders: the callbacks are made anew over the models of the moment
Render ==
    /\ rendered # resourcePack.models
    /\ rendered' = resourcePack.models
    /\ UNCHANGED <<resourcePack, packEdition, versionConfigs, isProcessing, flagTimers, mv,
                   mvRuns, download, validationResults, upload, imported, mergePacks,
                   mergeConflicts, analysis, merge, textureWorker, zipWorker>>

\* the edition selector
SetPackEdition(edition) ==
    /\ packEdition # edition
    /\ packEdition' = edition
    /\ UNCHANGED <<resourcePack, versionConfigs, isProcessing, flagTimers, mv, mvRuns,
                   download, validationResults, upload, imported, mergePacks, mergeConflicts,
                   analysis, merge, rendered, textureWorker, zipWorker>>

\* handleBbmodelUpload(file, parsedData) of a document without embedded textures: no
\* await is taken, so the call runs in one step
BbmodelUpload ==
    /\ HasField(upload, "parsedData")
    /\ Len(resourcePack.models) < MaxModels
    /\ Cardinality({i \in 1..Len(resourcePack.models) :
                       HasField(resourcePack.models[i], "bedrockGeometry")}) < MaxUploads
    /\ flagTimers < MaxTimers
    /\ LET parsedData == upload.parsedData
           modelName == IF parsedData.name # "" THEN parsedData.name ELSE upload.name
           customModelData == newCustomModelData(rendered)
       IN  resourcePack' =
              [resourcePack EXCEPT !.models =
                  Append(@, [name |-> modelName,
                             customModelData |-> customModelData,
                             parent |-> "item/generated", textures |-> <<>>,
                             targetItem |-> "stick",
                             customModelDataFloats |-> <<customModelData>>,
                             customModelDataFlags |-> <<>>,
                             customModelDataStrings |-> <<>>, customModelDataColors |-> <<>>,
                             bedrockGeometry |->
                                 IF packEdition = "bedrock"
                                 THEN convertToBedrock(parsedData, modelName)
                                 ELSE NoGeometry])]
    /\ isProcessing' = TRUE
    /\ flagTimers' = flagTimers + 1
    /\ UNCHANGED <<packEdition, versionConfigs, mv, mvRuns, download, validationResults,
                   upload, imported, mergePacks, mergeConflicts, analysis, merge, rendered,
                   textureWorker, zipWorker>>

\* the Export Settings button: the settings document handed to the browser
ExportSettings ==
    /\ download' = [outcome |-> "settings", errors |-> <<>>, pack |-> resourcePack,
                    edition |-> packEdition, writes |-> <<>>, zip |-> <<>>,
                    settings |-> Settings(resourcePack)]
    /\ UNCHANGED <<resourcePack, packEdition, versionConfigs, isProcessing, flagTimers, mv,
                   mvRuns, validationResults, upload, imported, mergePacks, mergeConflicts,
                   analysis, merge, rendered, textureWorker, zipWorker>>

\* importExistingPack on the settings file the last Export Settings delivered, once
\* in a run: the document has pack and models, so the pack is replaced and the flag
\* cleared
ImportSettings ==
    /\ download.outcome = "settings"
    /\ imported.pc = "idle"
    /\ resourcePack' = SettingsPack(download.settings, "Pack-settings")
    /\ imported' = [NoImport EXCEPT !.pc = "done", !.done = TRUE, !.source = download]
    /\ isProcessing' = FALSE
    /\ UNCHANGED <<packEdition, versionConfigs, flagTimers, mv, mvRuns, download,
                   validationResults, upload, mergePacks, mergeConflicts, analysis, merge,
                   rendered, textureWorker, zipWorker>>

(***************************************************************************)
(* The texture worker and useTextureWorker                                 *)
(***************************************************************************)
\* self.onmessage of the texture worker: the response to one request. An image that
\* createImageBitmap cannot decode ends in the catch block.
TextureResponse(request) ==
    IF request.file = "broken"
    THEN [success |-> FALSE, data |-> <<>>, error |-> "decode failed"]
    ELSE [success |-> TRUE, data |-> <<request.type, request.file>>, error |-> ""]

\* handleMessage of compressTexture and of resizeTexture: the promise of the call
\* settles with the message it is handed
SettleTexture(request, message) ==
    IF message.success
    THEN [status |-> "resolved", value |-> message.data, reason |-> ""]
    ELSE [status |-> "rejected", value |-> <<>>,
          reason |-> IF message.error # "" THEN message.error
                     ELSE IF request.type = "compress" THEN "Compression failed"
                          ELSE "Resize failed"]

PendingPromise == [status |-> "pending", value |-> <<>>, reason |-> ""]

IdleTextureWorker ==
    [calls |-> <<>>, inbox |-> <<>>, running |-> {}, outbox |-> <<>>, listeners |-> <<>>,
     promises |-> <<>>, isProcessing |-> FALSE]

\* compressTexture(file, options) or resizeTexture(file, w, h): the listener is added
\* and the request posted
TextureCall(type, file) ==
    /\ Len(textureWorker.calls) < MaxCalls
    /\ LET call == Len(textureWorker.calls) + 1
           request == [call |-> call, type |-> type, file |-> file]
       IN  textureWorker' =
              [textureWorker EXCEPT !.calls = Append(@, request),
                                    !.inbox = Append(@, request),
                                    !.listeners = Append(@, call),
                                    !.promises = Append(@, PendingPromise),
                                    !.isProcessing = TRUE]
    /\ UNCHANGED <<resourcePack, packEdition, versionConfigs, isProcessing, flagTimers, mv,
                   mvRuns, download, validationResults, upload, imported, mergePacks,
                   mergeConflicts, analysis, merge, rendered, zipWorker>>

\* the worker takes the next request: its asynchronous handler runs up to its first await
TextureWorkerTakes ==
    /\ textureWorker.inbox # <<>>
    /\ textureWorker' = [textureWorker EXCEPT !.inbox = Tail(@),
                                              !.running = @ \cup {Head(textureWorker.inbox)}]
    /\ UNCHANGED <<resourcePack, packEdition, versionConfigs, isProcessing, flagTimers, mv,
                   mvRuns, download, validationResults, upload, imported, mergePacks,
                   mergeConflicts, analysis, merge, rendered, zipWorker>>

\* one running handler finishes and posts its response; the handlers of two requests
\* finish in either order
TextureWorkerAnswers(request) ==
    /\ request \in textureWorker.running
    /\ textureWorker' = [textureWorker EXCEPT !.running = @ \ {request},
                                              !.outbox = Append(@, TextureResponse(request))]
    /\ UNCHANGED <<resourcePack, packEdition, versionConfigs, isProcessing, flagTimers, mv,
                   mvRuns, download, validationResults, upload, imported, mergePacks,
                   mergeConflicts, analysis, merge, rendered, zipWorker>>

\* the message event of the next response: every listener added and not yet removed is
\* called with it, removes itself and settles its promise
TextureMessage ==
    /\ textureWorker.outbox # <<>>
    /\ LET message == Head(textureWorker.outbox)
           called == Range(textureWorker.listeners)
       IN  textureWorker' =
              [textureWorker EXCEPT
                  !.outbox = Tail(@),
                  !.listeners = <<>>,
                  !.promises = [c \in 1..Len(@) |->
                                   IF c \in called
                                   THEN SettleTexture(textureWorker.calls[c], message)
                                   ELSE @[c]],
                  !.isProcessing = IF called = {} THEN @ ELSE FALSE]
    /\ UNCHANGED <<resourcePack, packEdition, versionConfigs, isProcessing, flagTimers, mv,
                   mvRuns, download, validationResults, upload, imported, mergePacks,
                   mergeConflicts, analysis, merge, rendered, zipWorker>>

(***************************************************************************)
(* The ZIP worker and useZipWorker                                         *)
(***************************************************************************)
\* Map.set(path, ...): the paths of a WorkerZipGenerator in insertion order
MapSet(files, path) == IF path \in Range(files) THEN files ELSE Append(files, path)

\* the messages one generateZip(files) call posts, in order
ZipRequests(call, files) ==
    <<[type |-> "init", call |-> call, path |-> ""]>>
    \o [i \in 1..Len(files) |-> [type |-> "addFile", call |-> call, path |-> files[i]]]
    \o <<[type |-> "finalize", call |-> call, path |-> ""]>>

ZipProgressMessage(progress) ==
    [type |-> "progress", progress |-> progress, data |-> <<>>, error |-> ""]
ZipCompleteMessage(data) ==
    [type |-> "complete", progress |-> 0, data |-> data, error |-> ""]
ZipErrorMessage(error) ==
    [type |-> "error", progress |-> 0, data |-> <<>>, error |-> error]

\* zipGenerator is null (0) or refers to one of the generators made so far
IdleZipWorker ==
    [calls |-> <<>>, inbox |-> <<>>, generators |-> <<>>, zipGenerator |-> 0,
     finalizing |-> {}, thrown |-> {}, outbox |-> <<>>, listeners |-> <<>>,
     promises |-> <<>>, isGenerating |-> FALSE, progress |-> 0]

\* generateZip(files) of useZipWorker: the listener is added, then init, one addFile
\* per file and finalize are posted
ZipCall(files) ==
    /\ Len(zipWorker.calls) < MaxCalls
    /\ LET call == Len(zipWorker.calls) + 1
       IN  zipWorker' =
              [zipWorker EXCEPT !.calls = Append(@, files),
                                !.inbox = @ \o ZipRequests(call, files),
                                !.listeners = Append(@, call),
                                !.promises = Append(@, PendingPromise),
                                !.isGenerating = TRUE,
                                !.progress = 0]
    /\ UNCHANGED <<resourcePack, packEdition, versionConfigs, isProcessing, flagTimers, mv,
                   mvRuns, download, validationResults, upload, imported, mergePacks,
                   mergeConflicts, analysis, merge, rendered, textureWorker>>

\* self.onmessage of the ZIP worker on the next request, up to its first pending await:
\* init and addFile run to their end, finalize stops inside generateZip
ZipWorkerTakes ==
    /\ zipWorker.inbox # <<>>
    /\ LET request == Head(zipWorker.inbox)
           current == zipWorker.zipGenerator
       IN  zipWorker' =
              IF request.type = "init"
              THEN [zipWorker EXCEPT !.inbox = Tail(@),
                                     !.generators = Append(@, <<>>),
                                     !.zipGenerator = Len(zipWorker.generators) + 1,
                                     !.outbox = Append(@, ZipProgressMessage(0))]
              ELSE IF current = 0
              THEN [zipWorker EXCEPT !.inbox = Tail(@),
                                     !.thrown = @ \cup {request},
                                     !.outbox = Append(@, ZipErrorMessage(
                                                    "ZIP generator not initialized"))]
              ELSE IF request.type = "addFile"
              THEN [zipWorker EXCEPT !.inbox = Tail(@),
                                     !.generators[current] = MapSet(@, request.path),
                                     !.outbox = Append(@, ZipProgressMessage(100))]
              ELSE [zipWorker EXCEPT !.inbox = Tail(@),
                                     !.finalizing = @ \cup {current}]
    /\ UNCHANGED <<resourcePack, packEdition, versionConfigs, isProcessing, flagTimers, mv,
                   mvRuns, download, validationResults, upload, imported, mergePacks,
                   mergeConflicts, analysis, merge, rendered, textureWorker>>

\* the generateZip of one finalize returns: the archive of its generator is posted and
\* zipGenerator set to null
ZipWorkerCompletes(generator) ==
    /\ generator \in zipWorker.finalizing
    /\ zipWorker' = [zipWorker EXCEPT
                        !.finalizing = @ \ {generator},
                        !.outbox = Append(@, ZipCompleteMessage(zipWorker.generators[generator])),
                        !.zipGenerator = 0]
    /\ UNCHANGED <<resourcePack, packEdition, versionConfigs, isProcessing, flagTimers, mv,
                   mvRuns, download, validationResults, upload, imported, mergePacks,
                   mergeConflicts, analysis, merge, rendered, textureWorker>>

\* the message event of the next response: every listener added and not yet removed is
\* called with it; complete and error remove the listener and settle its promise
ZipMessage ==
    /\ zipWorker.outbox # <<>>
    /\ LET message == Head(zipWorker.outbox)
           called == Range(zipWorker.listeners)
       IN  zipWorker' =
              IF message.type = "progress"
              THEN [zipWorker EXCEPT !.outbox = Tail(@),
                                     !.progress = IF called = {} THEN @ ELSE message.progress]
              ELSE [zipWorker EXCEPT
                       !.outbox = Tail(@),
                       !.listeners = <<>>,
                       !.promises = [c \in 1..Len(@) |->
                           IF c \notin called THEN @[c]
                           ELSE IF message.type = "complete"
                           THEN [status |-> "resolved", value |-> message.data, reason |-> ""]
                           ELSE [status |-> "rejected", value |-> <<>>,
                                 reason |-> IF message.error # "" THEN message.error
                                            ELSE "ZIP generation failed"]],
                       !.isGenerating = IF called = {} THEN @ ELSE FALSE,
                       !.progress = IF called # {} /\ message.type = "complete" THEN 100 ELSE @]
    /\ UNCHANGED <<resourcePack, packEdition, versionConfigs, isProcessing, flagTimers, mv,
                   mvRuns, download, validationResults, upload, imported, mergePacks,
                   mergeConflicts, analysis, merge, rendered, textureWorker>>

(***************************************************************************)
(* Initial states and specifications                                       *)
(***************************************************************************)
\* no worker call made yet
IdleWorkers ==
    /\ textureWorker = IdleTextureWorker
    /\ zipWorker = IdleZipWorker

IdleEditor ==
    /\ rendered = resourcePack.models
    /\ IdleWorkers

IdleExport ==
    /\ packEdition = "java"
    /\ versionConfigs = InitialVersionConfigs
    /\ isProcessing = FALSE
    /\ flagTimers = 0
    /\ mv = IdleRun
    /\ mvRuns = <<>>
    /\ download = NoArchive
    /\ validationResults = NoErrors
    /\ IdleEditor

IdleImport ==
    /\ upload = NoFile
    /\ imported = NoImport

IdleMerge ==
    /\ mergePacks = <<>>
    /\ mergeConflicts = <<>>
    /\ analysis = NoAnalysis
    /\ merge = NoMerge

\* Export and re-import: every pack the editing surface can build within the bounds
ExportPacks ==
    UNION {[name : {"Pack"}, description : {"A pack"}, format : {34, DispatchFormat},
            models : SeqsUpTo(ModelInputs(layers), MaxModels),
            textures : IF layers = <<>> THEN {<<>>} ELSE TextureInputs, fonts : {<<>>},
     sounds : {<<>>}, languages : {<<>>}, particles : {<<>>}, shaders : {<<>>}] :
              layers \in LayerInputs}

InitExport ==
    /\ resourcePack \in ExportPacks
    /\ IdleExport
    /\ IdleImport
    /\ IdleMerge

NextExport ==
    \/ GenerateZip
    \/ TimerFires
    \/ ImportDownload
    \/ \E i \in 1..MaxTextures : ProbeLoads(i)
    \/ ImportFinish

SpecExport == InitExport /\ [][NextExport]_vars

GemModel ==
    [name |-> "gem", customModelData |-> 1, parent |-> "item/generated",
     textures |-> <<>>, targetItem |-> "stick"]

\* Validation and export of packs with fonts, valid and invalid
ProviderInputs ==
    [type : {"bitmap"}, ascent : {0, 7, 9}, height : {0, 8}] \cup {[type |-> "space"]}

FontInputs == [name : {"default"}, providers : SeqsUpTo(ProviderInputs, 1) \ {<<>>}]

ValidationModels ==
    {<<>>} \cup UNION {{<<m>> : m \in ModelInputs(layers)} : layers \in LayerInputs}
    \cup {<<[GemModel EXCEPT !.textures = GemLayers],
            [GemModel EXCEPT !.name = "stick", !.customModelData = id, !.textures = GemLayers]>> : id \in 1..MaxId}

ValidationPacks ==
    [name : {"", "Pack"}, description : {"", "A pack"}, format : {DispatchFormat},
     models : ValidationModels, textures : {<<>>}, fonts : SeqsUpTo(FontInputs, 1),
     sounds : {<<>>}, languages : {<<>>}, particles : {<<>>}, shaders : {<<>>}]

InitValidate ==
    /\ resourcePack \in ValidationPacks
    /\ IdleExport
    /\ IdleImport
    /\ IdleMerge

NextValidate ==
    \/ ValidatePack
    \/ GenerateZip
    \/ TimerFires

SpecValidate == InitValidate /\ [][NextValidate]_vars

\* Multi-version export
MultiPacks ==
    [name : {"", "Pack"}, description : {"A pack"}, format : Formats,
     models : {<<>>, <<GemModel>>}, textures : {<<>>}, fonts : {<<>>},
     sounds : {<<>>}, languages : {<<>>}, particles : {<<>>}, shaders : {<<>>}]

InitMulti ==
    /\ resourcePack \in MultiPacks
    /\ packEdition \in {"java", "bedrock"}
    /\ versionConfigs = InitialVersionConfigs
    /\ isProcessing = FALSE
    /\ flagTimers = 0
    /\ mv = IdleRun
    /\ mvRuns = <<>>
    /\ download = NoArchive
    /\ validationResults = NoErrors
    /\ IdleEditor
    /\ IdleImport
    /\ IdleMerge

NextMulti ==
    \/ \E i \in 1..Len(versionConfigs) : ToggleVersion(i)
    \/ MVStart
    \/ MVSetFormat
    \/ MVGenerateZip
    \/ MVRestore
    \/ MVDelay
    \/ MVFinish
    \/ TimerFires

SpecMulti == InitMulti /\ [][NextMulti]_vars

\* Import of a Java Edition archive at hand: one base item with one override, its
\* model document with one texture layer, and the texture files of the archive
TexKeyInputs ==
    {<<"item", "gem">>, <<"gem">>, <<"block", "gem">>, <<"item", "tools", "gem">>,
     <<"item", "tools", "ruby">>}

RefInputs ==
    [ns : {"", "minecraft", "custom"},
     segs : {<<"item", "gem">>, <<"gem">>, <<"block", "gem">>, <<"item", "tools", "gem">>,
             <<"item", "block", "gem">>, <<"item", "ruby">>}]

DistinctSeqs(S, n) == {s \in SeqsUpTo(S, n) : \A i, j \in 1..Len(s) : i # j => s[i] # s[j]}

ImportArchive(keys, ref) ==
    <<[path |-> ZipPath(<<"pack">>, "mcmeta"),
       doc  |-> [kind |-> "pack.mcmeta", pack_format |-> 34, description |-> "A pack"]]>>
    \o [i \in 1..Len(keys) |->
          [path |-> ZipPath(<<"assets", "minecraft", "textures">> \o keys[i], "png"),
           doc  |-> [kind |-> "texture", file |-> keys[i]]]]
    \o <<[path |-> ModelsItemPath("stick"),
          doc  |-> ItemModel("stick", <<[name |-> "gem", customModelData |-> 1]>>)],
         [path |-> ModelsItemPath("gem"),
          doc  |-> [kind |-> "model", parent |-> "item/generated",
                    textures |-> <<[layer |-> "layer0", ref |-> ref]>>]]>>

ImportFiles ==
    {[name |-> "pack", zip |-> ImportArchive(keys, ref), readable |-> TRUE] :
        keys \in DistinctSeqs(TexKeyInputs, MaxTextures), ref \in RefInputs}

InitImport ==
    /\ resourcePack \in {[name |-> "", description |-> "", format |-> DefaultFormat,
                          models |-> <<>>, textures |-> <<>>, fonts |-> <<>>,
                          sounds |-> <<>>, languages |-> <<>>, particles |-> <<>>,
                          shaders |-> <<>>]}
    /\ IdleExport
    /\ upload \in ImportFiles
    /\ imported = NoImport
    /\ IdleMerge

NextImport ==
    \/ ImportUpload
    \/ \E i \in 1..MaxTextures : ProbeLoads(i)
    \/ ImportFinish
    \/ TimerFires

SpecImport == InitImport /\ [][NextImport]_vars

\* Import of archives of both editions, well-formed and not, step by step
Malformed == [kind |-> "malformed"]

RunKeyInputs == {<<"item", "gem">>, <<"item", "ruby">>, <<"block", "onyx">>}

RubyModel ==
    [kind |-> "model", parent |-> "item/generated",
     textures |-> <<[layer |-> "layer0", ref |-> Ref("", <<"item", "ruby">>)]>>]

\* an item definition of type minecraft:select with one case
SelectItem(when, modelName) ==
    [kind  |-> "select",
     cases |-> <<[when |-> when, model |-> ItemRef(<<modelName>>)]>>]

\* what an archive holds besides its head document, textures, item definition and model
ExtraInputs ==
    {<<>>,
     <<[path |-> FontPath("default"),
        doc  |-> FontJson([name |-> "default",
                           providers |-> <<[type |-> "bitmap", ascent |-> 7, height |-> 8]>>])]>>,
     <<[path |-> FontPath("default"), doc |-> Malformed]>>,
     <<[path |-> ZipPath(<<"assets", "minecraft", "sounds">>, "json"), doc |-> Malformed]>>,
     <<[path |-> ZipPath(<<"assets", "minecraft", "particles", "spark">>, "json"),
        doc  |-> Malformed]>>,
     <<[path |-> ZipPath(<<"assets", "minecraft", "lang", "en_us">>, "json"),
        doc  |-> Malformed]>>,
     \* a dispatch document for the bow next to the legacy list of the stick
     <<[path |-> ItemsPath("bow"), doc |-> SelectItem(2, "ruby")],
       [path |-> ModelsItemPath("ruby"), doc |-> RubyModel]>>,
     \* a legacy list of an item the catalog does not know
     <<[path |-> ModelsItemPath("apple"),
        doc  |-> ItemModel("apple", <<[name |-> "ruby", customModelData |-> 2]>>)],
       [path |-> ModelsItemPath("ruby"), doc |-> RubyModel]>>}

JavaRunArchive(keys, head, item, model, extra) ==
    <<[path |-> ZipPath(<<"pack">>, "mcmeta"), doc |-> head]>>
    \o [i \in 1..Len(keys) |->
          [path |-> ZipPath(<<"assets", "minecraft", "textures">> \o keys[i], "png"),
           doc  |-> [kind |-> "texture", file |-> keys[i]]]]
    \o <<[path |-> ModelsItemPath("stick"), doc |-> item],
         [path |-> ModelsItemPath("gem"), doc |-> model]>>
    \o extra

BedrockRunArchive(keys, head, geometry) ==
    <<[path |-> ZipPath(<<"manifest">>, "json"), doc |-> head]>>
    \o [i \in 1..Len(keys) |->
          [path |-> ZipPath(<<"textures">> \o keys[i], "png"),
           doc  |-> [kind |-> "texture", file |-> keys[i]]]]
    \o <<[path |-> ZipPath(<<"models", "gem">>, "geo.json"), doc |-> geometry]>>

GoodHead == [kind |-> "pack.mcmeta", pack_format |-> 34, description |-> "A pack"]
GoodItem == ItemModel("stick", <<[name |-> "gem", customModelData |-> 1]>>)
GoodModel ==
    [kind |-> "model", parent |-> "item/generated",
     textures |-> <<[layer |-> "layer0", ref |-> Ref("", <<"item", "gem">>)]>>]

\* object-valued custom_model_data: the first serializes to a text whose hash is the
\* minimum 32-bit integer, the second and the last to texts of positive hash, the
\* others to texts of negative hash
ExtendedInputs ==
    {[strings |-> <<<<97, 103, 109, 106, 107, 117, 119, 114>>>>],
     [floats |-> <<1>>],
     [floats |-> <<1, 2>>, flags |-> <<TRUE, FALSE>>],
     [colors |-> <<<<255, 0, 128>>>>],
     [floats |-> <<12>>, flags |-> <<TRUE>>, strings |-> <<<<103, 101, 109>>>>,
      colors |-> <<<<0, 16, 255>>>>],
     [strings |-> <<>>]}

\* the item definition of the stick with one override whose predicate is extended
ExtendedItem(cmd) ==
    [kind      |-> "overrides",
     parent    |-> "item/generated",
     textures  |-> <<[layer |-> "layer0", ref |-> ItemRef(<<"stick">>)]>>,
     overrides |-> <<[predicate |-> [custom_model_data_object |-> cmd],
                      model     |-> ItemRef(<<"gem">>)]>>]

\* a Java archive is well-formed or has one malformed document
JavaVariants ==
    {[head |-> GoodHead, item |-> GoodItem, model |-> GoodModel, extra |-> extra] :
        extra \in ExtraInputs}
    \cup {[head |-> GoodHead, item |-> ExtendedItem(cmd), model |-> GoodModel, extra |-> <<>>] :
             cmd \in ExtendedInputs}
    \cup {[head |-> Malformed, item |-> GoodItem, model |-> GoodModel, extra |-> <<>>],
          [head |-> GoodHead, item |-> Malformed, model |-> GoodModel, extra |-> <<>>],
          [head |-> GoodHead, item |-> GoodItem, model |-> Malformed, extra |-> <<>>]}

RunFiles ==
    {[name |-> "java", readable |-> TRUE,
      zip  |-> JavaRunArchive(keys, v.head, v.item, v.model, v.extra)] :
        keys \in DistinctSeqs(RunKeyInputs, MaxTextures), v \in JavaVariants}
    \cup {[name |-> "bedrock", readable |-> TRUE, zip |-> BedrockRunArchive(keys, head, geometry)] :
        keys \in DistinctSeqs(RunKeyInputs, MaxTextures),
        head \in {[kind |-> "manifest"], Malformed},
        geometry \in {[kind |-> "geometry"], Malformed}}
    \cup {[name |-> "broken", readable |-> FALSE, zip |-> <<>>]}

InitImportRun ==
    /\ resourcePack \in {[name |-> "Old", description |-> "An old pack", format |-> 34,
                          models |-> <<GemModel>>, textures |-> <<>>, fonts |-> <<>>,
                          sounds |-> <<>>, languages |-> <<>>, particles |-> <<>>,
                          shaders |-> <<>>]}
    /\ packEdition \in {"java", "bedrock"}
    /\ versionConfigs = InitialVersionConfigs
    /\ isProcessing = FALSE
    /\ flagTimers = 0
    /\ mv = IdleRun
    /\ mvRuns = <<>>
    /\ download = NoArchive
    /\ validationResults = NoErrors
    /\ IdleEditor
    /\ upload \in RunFiles
    /\ imported = NoImport
    /\ IdleMerge

NextImportRun ==
    \/ ImportUpload
    \/ \E i \in 1..MaxTextures : ProbeLoads(i)
    \/ \E i \in 1..MaxTextures : ProbeNeverLoads(i)
    \/ ImportFinish
    \/ TimerFires

SpecImportRun == InitImportRun /\ [][NextImportRun]_vars

\* the event loop runs every continuation that is ready: an image that decodes fires
\* its onload, a due timer fires, and the continuation of a settled Promise.all does
\* not stay ready for ever (weak fairness of ImportFinish, which ends its own readiness)
SpecImportRunFair ==
    /\ SpecImportRun
    /\ \A i \in 1..MaxTextures : WF_vars(ProbeLoads(i))
    /\ WF_vars(TimerFires)
    /\ []<>~FinishReady

\* Merge of uploaded packs
InitMerge ==
    /\ resourcePack \in {[name |-> "", description |-> "", format |-> DefaultFormat,
                          models |-> <<>>, textures |-> <<>>, fonts |-> <<>>,
                          sounds |-> <<>>, languages |-> <<>>, particles |-> <<>>,
                          shaders |-> <<>>]}
    /\ IdleExport
    /\ IdleImport
    /\ IdleMerge

NextMerge ==
    \/ \E file \in MergeFileInputs : MergePackUpload(file)
    \/ \E index \in 1..MaxPacks : RemoveMergePack(index)
    \/ AnalyzeMergeConflicts
    \/ \E index \in 1..Len(mergeConflicts), resolution \in Resolutions :
          SetResolution(index, resolution)
    \/ ExecuteMerge
    \/ MergeTimerFires
    \/ TimerFires

SpecMerge == InitMerge /\ [][NextMerge]_vars

\* The editor: Blockbench documents whose outliner has nodes at two depths, child
\* references that find an element and one that finds none
ElementInputs ==
    <<[uuid |-> "e1", from |-> <<0, 0, 0>>, to |-> <<1, 2, 3>>],
      [uuid |-> "e2", from |-> <<1, 1, 1>>, to |-> <<2, 2, 2>>]>>

ChildRefs == {[uuid |-> "e1"], [uuid |-> "e2"], [uuid |-> "e9"]}

InnerNodes ==
    {[name |-> "hand", origin |-> <<1, 0, 0>>, children |-> c] : c \in {<<>>, <<[uuid |-> "e1"]>>}}

TopNodes ==
    {[name |-> "arm", origin |-> <<0, 1, 0>>, children |-> c] :
        c \in SeqsUpTo(ChildRefs \cup InnerNodes, 2)}
    \cup {[name |-> "arm", children |-> <<>>]}

BodyNode == [name |-> "body", origin |-> <<0, 0, 0>>, children |-> <<[uuid |-> "e2"]>>]

OutlinerInputs == {<<>>} \cup {<<n>> : n \in TopNodes} \cup {<<BodyNode, n>> : n \in TopNodes}

BbmodelFiles ==
    {[name |-> "robot",
      parsedData |-> [name |-> "robot", outliner |-> o, elements |-> ElementInputs,
                      elementsIsArray |-> TRUE]] : o \in OutlinerInputs}
    \cup {[name |-> "robot",
           parsedData |-> [name |-> "", outliner |-> <<BodyNode>>, elements |-> <<>>,
                           elementsIsArray |-> FALSE]]}

InitEditor ==
    /\ resourcePack \in {[name |-> "Pack", description |-> "A pack", format |-> DefaultFormat,
                          models |-> <<>>, textures |-> <<>>, fonts |-> <<>>,
                          sounds |-> <<>>, languages |-> <<>>, particles |-> <<>>,
                          shaders |-> <<>>]}
    /\ packEdition \in {"java", "bedrock"}
    /\ versionConfigs = InitialVersionConfigs
    /\ isProcessing = FALSE
    /\ flagTimers = 0
    /\ mv = IdleRun
    /\ mvRuns = <<>>
    /\ download = NoArchive
    /\ validationResults = NoErrors
    /\ IdleEditor
    /\ upload \in BbmodelFiles
    /\ imported = NoImport
    /\ IdleMerge

NextEditor ==
    \/ AddModel
    \/ Render
    \/ BbmodelUpload
    \/ \E edition \in {"java", "bedrock"} : SetPackEdition(edition)
    \/ GenerateZip
    \/ TimerFires

SpecEditor == InitEditor /\ [][NextEditor]_vars

\* Packs with fonts, sounds, languages, particles and shaders
FontFileInputs ==
    {[name |-> "sheet", ext |-> "png"], [name |-> "sheet", ext |-> "PNG"],
     [name |-> "sans", ext |-> "ttf"]}

SourceProviderInputs ==
    {[type |-> "bitmap", ascent |-> 7, height |-> 8],
     [type |-> "bitmap", ascent |-> 7, height |-> 8,
      fileHandle |-> [name |-> "glyphs", ext |-> "png"]],
     [type |-> "bitmap", ascent |-> 7, height |-> 8,
      file |-> Ref("minecraft", <<"font", "glyphs">>)],
     [type |-> "ttf"],
     [type |-> "ttf", fileHandle |-> [name |-> "serif", ext |-> "TTF"]],
     [type |-> "ttf", file |-> Ref("minecraft", <<"font", "serif">>), fileExt |-> "otf"],
     [type |-> "space"]}

SourceFontInputs ==
    {[name |-> "default", providers |-> p] :
        p \in SeqsUpTo(SourceProviderInputs, 2) \ {<<>>}}
    \cup {[name |-> "default", providers |-> <<p>>, file |-> f] :
            p \in SourceProviderInputs, f \in FontFileInputs}

SoundInputs ==
    {<<>>,
     <<[name |-> "ding", category |-> "master", sounds |-> <<"ding">>]>>,
     <<[name |-> "ding", category |-> "master", sounds |-> <<"ding">>,
        file |-> [name |-> "ding", ext |-> "ogg"]]>>}

LanguageInputs ==
    {<<>>,
     <<[code |-> "en_us", name |-> "en_us",
        content |-> <<[key |-> "item.gem", value |-> "Gem"]>>]>>}

ParticleInputs ==
    {<<>>,
     <<[name |-> "spark", textures |-> <<"spark">>]>>,
     <<[name |-> "spark", textures |-> <<"spark">>, file |-> [name |-> "spark", ext |-> "png"]]>>}

ShaderInputs ==
    {<<>>, <<[name |-> "blur", type |-> "program", content |-> [kind |-> "shader"]]>>}

AssetPacks ==
    {[name |-> "Pack", description |-> "A pack", format |-> DispatchFormat,
      models |-> <<[GemModel EXCEPT !.textures = GemLayers]>>, textures |-> <<>>,
      fonts |-> <<f>>, sounds |-> <<>>, languages |-> <<>>, particles |-> <<>>,
      shaders |-> <<>>] : f \in SourceFontInputs}
    \cup [name : {"Pack"}, description : {"A pack"}, format : {DispatchFormat},
          models : {<<[GemModel EXCEPT !.textures = GemLayers]>>}, textures : {<<>>},
          fonts : {<<>>}, sounds : SoundInputs, languages : LanguageInputs,
          particles : ParticleInputs, shaders : ShaderInputs]

InitAssets ==
    /\ resourcePack \in AssetPacks
    /\ packEdition \in {"java", "bedrock"}
    /\ versionConfigs = InitialVersionConfigs
    /\ isProcessing = FALSE
    /\ flagTimers = 0
    /\ mv = IdleRun
    /\ mvRuns = <<>>
    /\ download = NoArchive
    /\ validationResults = NoErrors
    /\ IdleEditor
    /\ IdleImport
    /\ IdleMerge

NextAssets ==
    \/ GenerateZip
    \/ ExportSettings
    \/ ImportSettings
    \/ \E edition \in {"java", "bedrock"} : SetPackEdition(edition)
    \/ TimerFires

SpecAssets == InitAssets /\ [][NextAssets]_vars

(***************************************************************************)
(* Claims                                                                  *)
(***************************************************************************)
\* the exported models of a pack: those with an identifier and a target item that
\* the export takes (customModelData && targetItem)
ExportedModels(pack) ==
    {i \in 1..Len(pack.models) :
        pack.models[i].customModelData # 0 /\ pack.models[i].targetItem # ""}

ExportedOfItem(pack, item) ==
    {i \in ExportedModels(pack) : pack.models[i].targetItem = item}

ExportedItems(pack) == {pack.models[i].targetItem : i \in ExportedModels(pack)}

JavaArchive(result) == result.outcome = "archive" /\ result.edition = "java"

C2_FormatRestoredOthersUntouched ==
    /\ mv.pc # "idle" => [resourcePack EXCEPT !.format = mv.pack.format] = mv.pack
    /\ mv.pc = "done" => resourcePack = mv.pack

C2_Witness ==
    /\ mv.pc = "done"
    /\ Len(mvRuns) >= 2
    /\ \E i \in 1..Len(mvRuns) :
          /\ mvRuns[i].outcome = "archive"
          /\ mv.enabledVersions[i].format # mv.pack.format

\* the entry a range_dispatch document selects for the probe v: highest threshold <= v,
\* the fallback when there is none
Dispatch(doc, v) ==
    LET hits == {i \in 1..Len(doc.entries) : doc.entries[i].threshold <= v}
    IN  IF hits = {} THEN doc.fallback
        ELSE doc.entries[CHOOSE i \in hits :
                            \A j \in hits : doc.entries[j].threshold <= doc.entries[i].threshold].model

\* the model a probe v should show: the exported model of the item with the greatest
\* identifier <= v, the base model of the item when there is none
Expected(pack, item, v) ==
    LET hits == {i \in ExportedOfItem(pack, item) : pack.models[i].customModelData <= v}
    IN  IF hits = {} THEN ItemRef(<<item>>)
        ELSE ItemRef(<<pack.models[CHOOSE i \in hits :
                          \A j \in hits : pack.models[j].customModelData
                                            <= pack.models[i].customModelData].name>>)

DistinctIds(pack, item) ==
    \A i, j \in ExportedOfItem(pack, item) :
        i # j => pack.models[i].customModelData # pack.models[j].customModelData

\* C3: in a Java archive of format >= 48, the dispatch document of every target item
\* with pairwise distinct identifiers is strictly ascending by threshold, has one entry
\* per exported model of the item, and selects for every probe the model with the
\* greatest identifier <= the probe (the fallback when there is none).
C3_DispatchSortedAndSelects ==
    JavaArchive(download) /\ download.pack.format >= DispatchFormat =>
        \A item \in ExportedItems(download.pack) :
            DistinctIds(download.pack, item) =>
                LET doc == ZipGet(download.zip, ItemsPath(item))
                    mine == ExportedOfItem(download.pack, item)
                IN  /\ doc.kind = "range_dispatch"
                    /\ \A i \in 1..(Len(doc.entries) - 1) :
                          doc.entries[i].threshold < doc.entries[i + 1].threshold
                    /\ Len(doc.entries) = Cardinality(mine)
                    /\ \A m \in mine :
                          Cardinality({i \in 1..Len(doc.entries) :
                              /\ doc.entries[i].threshold = download.pack.models[m].customModelData
                              /\ doc.entries[i].model = ItemRef(<<download.pack.models[m].name>>)}) = 1
                    /\ \A v \in 0..(MaxId + 1) : Dispatch(doc, v) = Expected(download.pack, item, v)

C3_Witness ==
    /\ JavaArchive(download)
    /\ download.pack.format >= DispatchFormat
    /\ Len(download.pack.models) = 2
    /\ download.pack.models[1].targetItem = download.pack.models[2].targetItem
    /\ download.pack.models[1].customModelData > download.pack.models[2].customModelData
    /\ download.pack.models[2].customModelData > 0
    /\ download.pack.models[1].name # download.pack.models[2].name

\* the zip.file calls of an export that write a selection document of an item
SelectionWrites(result, item) ==
    {i \in 1..Len(result.writes) :
        /\ result.writes[i].doc.kind \in {"range_dispatch", "overrides"}
        /\ Last(result.writes[i].path.segs) = item}

Essence(models) ==
    {[name |-> models[i].name, targetItem |-> models[i].targetItem,
      customModelData |-> models[i].customModelData, textures |-> models[i].textures] :
        i \in 1..Len(models)}

\* packs the round trip is asked of: every model has a target item, an identifier
\* >= 1 and a name of its own that is no target item's name
RoundTripPack(pack) ==
    /\ \A i \in 1..Len(pack.models) :
          /\ pack.models[i].targetItem # ""
          /\ pack.models[i].customModelData >= 1
          /\ \A j \in 1..Len(pack.models) :
                /\ pack.models[i].name # pack.models[j].targetItem
                /\ i # j => pack.models[i].name # pack.models[j].name

\* C5 (as claimed): importing the Java archive an export delivered gives back the
\* models of the exported pack: same names, target items, identifiers, layer maps,
\* for every format.
C5_RoundTrip ==
    /\ imported.done
    /\ JavaArchive(imported.source)
    /\ RoundTripPack(imported.source.pack)
    => Essence(imported.models) = Essence(imported.source.pack.models)

\* C6 (as claimed): a model with identifier 0 and a target item gets, in a Java
\* export, an entry with threshold/predicate 0 in the selection document of its item
\* and a model document of its own.
C6_ZeroIsExported ==
    JavaArchive(download) =>
        \A m \in 1..Len(download.pack.models) :
            LET model == download.pack.models[m]
            IN  model.customModelData = 0 /\ model.targetItem # "" =>
                  /\ \E i \in SelectionWrites(download, model.targetItem) :
                        LET doc == download.writes[i].doc
                        IN  IF doc.kind = "range_dispatch"
                            THEN \E k \in 1..Len(doc.entries) :
                                    /\ doc.entries[k].threshold = 0
                                    /\ doc.entries[k].model = ItemRef(<<model.name>>)
                            ELSE \E k \in 1..Len(doc.overrides) :
                                    /\ doc.overrides[k].predicate.custom_model_data = 0
                                    /\ doc.overrides[k].model = ItemRef(<<model.name>>)
                  /\ \E i \in 1..Len(download.writes) :
                        /\ download.writes[i].path = ModelsItemPath(model.name)
                        /\ download.writes[i].doc.kind = "model"

\* the resolver reports of the last import: one per model and layer
Reports ==
    UNION {{<<m, l>> : l \in 1..Len(imported.log[m])} : m \in 1..Len(imported.log)}

ImportedKeys == Range(MapKeys(imported.textureMap))

\* strategy 1 and 2 read to the letter: whatever namespace the reference carries is
\* stripped, then one leading item/, block/ or entity/ segment
AnyNamespaceStripped(ref) == Ref("", ref.segs)

OneFolderStripped(p) ==
    IF Len(p.segs) >= 2 /\ Head(p.segs) \in {"item", "block", "entity"}
    THEN Ref("", Tail(p.segs)) ELSE p

LiteralMatch(key, ref) ==
    \/ key = AnyNamespaceStripped(ref)
    \/ key = OneFolderStripped(AnyNamespaceStripped(ref))

\* C7 (as claimed): a texture that only the final-segment match finds is selected
\* only if no indexed path equals the reference with its namespace stripped, or with
\* a leading item/, block/ or entity/ segment stripped as well.
C7_SuffixMatchIsLastResort ==
    imported.done =>
        \A r \in Reports :
            LET report == imported.log[r[1]][r[2]]
            IN  report.strategy = 3 /\ ~LiteralMatch(report.key, report.ref) =>
                    \A key \in ImportedKeys : ~LiteralMatch(key, report.ref)

\* C7 (amended): the final-segment match is selected only if no indexed path equals
\* the reference with a leading "minecraft:" stripped (strategy 1) and none equals it,
\* with or without a leading item/, after its leading item/, block/ and entity/
\* segments are stripped too (strategy 2). No other namespace is stripped.
C7_SuffixMatchAfterCodeStrategies ==
    imported.done =>
        \A r \in Reports :
            LET report == imported.log[r[1]][r[2]]
            IN  report.strategy = 3 =>
                    /\ ~Strategy1Matches(imported.textureMap, report.ref)
                    /\ ~Strategy2Matches(imported.textureMap, report.ref)
                    /\ SuffixMatch(report.key,
                           FinalSegment(StripTypeFolders(pathWithoutMinecraft(report.ref))))

\* the final-segment match hit the second key of a two-key index
C7_Witness ==
    /\ imported.done
    /\ Len(imported.textureMap) = 2
    /\ \E r \in Reports :
          /\ imported.log[r[1]][r[2]].strategy = 3
          /\ imported.log[r[1]][r[2]].key = imported.textureMap[2].key

\* the layer value an import stored for a report
StoredLayer(r) == imported.models[r[1]].textures[r[2]]

\* C8 (as claimed): an unresolved layer is stored under its layer name with the
\* reference less its namespace and less its leading item/, block/ or entity/ folder;
\* the model and the import are completed.
C8_UnresolvedKeptCleaned ==
    imported.done =>
        /\ Len(imported.models) = Len(imported.log)
        /\ resourcePack.models = imported.models
        /\ \A r \in Reports :
              LET report == imported.log[r[1]][r[2]]
              IN  report.strategy = 0 =>
                      /\ r[2] <= Len(imported.models[r[1]].textures)
                      /\ StoredLayer(r).layer = report.layer
                      /\ StoredLayer(r).ref = OneFolderStripped(AnyNamespaceStripped(report.ref))

\* the cleaned name of the amended claim
CleanedName(ref) ==
    IF ref.ns \notin {"", "minecraft"} THEN ref
    ELSE LET a == IF Len(ref.segs) >= 2 /\ ref.segs[1] = "item" THEN Tail(ref.segs) ELSE ref.segs
             b == IF Len(a) >= 2 /\ a[1] = "block" THEN Tail(a) ELSE a
             c == IF Len(b) >= 2 /\ b[1] = "entity" THEN Tail(b) ELSE b
         IN  Ref("", c)

\* C8 (amended): an unresolved layer is stored under its layer name, never absent,
\* with the reference less a leading "minecraft:" and then less a leading item/, a
\* leading block/ and a leading entity/ segment, in that order; a reference in any
\* other namespace is stored unchanged. The model and the import are completed.
C8_UnresolvedKeptAsCodeCleans ==
    imported.done =>
        /\ Len(imported.models) = Len(imported.log)
        /\ resourcePack.models = imported.models
        /\ \A r \in Reports :
              LET report == imported.log[r[1]][r[2]]
              IN  report.strategy = 0 =>
                      /\ r[2] <= Len(imported.models[r[1]].textures)
                      /\ StoredLayer(r).layer = report.layer
                      /\ StoredLayer(r).ref = CleanedName(report.ref)

C8_Witness ==
    /\ imported.done
    /\ Len(imported.textureMap) > 0
    /\ \E r \in Reports :
          /\ imported.log[r[1]][r[2]].strategy = 0
          /\ imported.log[r[1]][r[2]].ref.ns = "minecraft"
          /\ StoredLayer(r).ref # Ref("", imported.log[r[1]][r[2]].ref.segs)

\* the packs of a list that hold the path as a texture entry, in scan order
Contributors(packs, path) ==
    {i \in 1..Len(packs) :
        \E k \in 1..Len(packs[i].file.zip) :
            LET e == packs[i].file.zip[k]
            IN  e.path = path /\ ~e.dir /\ InTextures(path)}

\* the content the pack holds at the path
ContentAt(pack, path) ==
    LET k == CHOOSE k \in 1..Len(pack.file.zip) : pack.file.zip[k].path = path
    IN  pack.file.zip[k].content

\* the texture paths of a list of packs
TexturePaths(packs) ==
    UNION {{e.path : e \in {x \in Range(packs[i].file.zip) : ~x.dir /\ InTextures(x.path)}} :
              i \in 1..Len(packs)}

\* the contributors of a path as a list, in ascending pack position
RECURSIVE InOrder(_, _, _)
InOrder(packs, S, i) ==
    IF i > Len(packs) THEN <<>>
    ELSE (IF i \in S THEN <<i>> ELSE <<>>) \o InOrder(packs, S, i + 1)

\* C9: an analysis yields one conflict for each texture path that more than one of the
\* analysed packs holds as a file, none for a path of a single pack and none for any
\* other path; a conflict lists its contributors (pack name and content) in scan
\* order and has resolution overwrite.
C9_OneConflictPerSharedPath ==
    analysis.done =>
        /\ \A path \in TexturePaths(analysis.packs) :
              Cardinality({c \in 1..Len(analysis.conflicts) : analysis.conflicts[c].path = path})
                = IF Cardinality(Contributors(analysis.packs, path)) > 1 THEN 1 ELSE 0
        /\ \A c \in 1..Len(analysis.conflicts) :
              LET conflict == analysis.conflicts[c]
                  order == InOrder(analysis.packs, Contributors(analysis.packs, conflict.path), 1)
              IN  /\ conflict.path \in TexturePaths(analysis.packs)
                  /\ conflict.resolution = "overwrite"
                  /\ Len(conflict.packs) = Len(order)
                  /\ \A k \in 1..Len(order) :
                        /\ conflict.packs[k].packName = analysis.packs[order[k]].name
                        /\ conflict.packs[k].file.content
                             = ContentAt(analysis.packs[order[k]], conflict.path)

\* an analysis of two packs that share one texture path and differ in another, one of
\* them with a directory entry
C9_Witness ==
    /\ analysis.done
    /\ Len(analysis.conflicts) = 1
    /\ \E path \in TexturePaths(analysis.packs) :
          Cardinality(Contributors(analysis.packs, path)) = 1
    /\ \E i \in 1..Len(analysis.packs) :
          \E k \in 1..Len(analysis.packs[i].file.zip) : analysis.packs[i].file.zip[k].dir

\* the merged textures held at a path
MergedAt(path) ==
    {k \in 1..Len(merge.mergedTextures) : merge.mergedTextures[k].key = path}

Least(S) == CHOOSE i \in S : \A j \in S : i <= j
Greatest(S) == CHOOSE i \in S : \A j \in S : j <= i

\* C10 (as claimed): after a merge, every conflicting path that a merged pack holds
\* occurs once in the merged textures; under overwrite it has the content of the last
\* pack holding it, under skip the content of the first.
C10_OverwriteLastSkipFirst ==
    merge.done =>
        \A c \in 1..Len(merge.conflicts) :
            LET conflict == merge.conflicts[c]
                from == Contributors(merge.packs, conflict.path)
            IN  from # {} /\ conflict.resolution \in {"overwrite", "skip"} =>
                  /\ Cardinality(MergedAt(conflict.path)) = 1
                  /\ \A k \in MergedAt(conflict.path) :
                        merge.mergedTextures[k].value.content
                          = ContentAt(merge.packs[IF conflict.resolution = "skip"
                                                  THEN Least(from) ELSE Greatest(from)],
                                      conflict.path)

\* C11 (as claimed): after a merge, for every conflicting path under rename that k
\* merged packs hold, the merged textures have k distinct paths, one per
\* contributor, each with the content that contributor holds at the conflicting path.
C11_RenameKeepsEveryContributor ==
    merge.done =>
        \A c \in 1..Len(merge.conflicts) :
            LET conflict == merge.conflicts[c]
                from == Contributors(merge.packs, conflict.path)
            IN  from # {} /\ conflict.resolution = "rename" =>
                  \E f \in [from -> 1..Len(merge.mergedTextures)] :
                      /\ \A i, j \in from : i # j => f[i] # f[j]
                      /\ \A i \in from :
                            merge.mergedTextures[f[i]].value.content
                              = ContentAt(merge.packs[i], conflict.path)

\* the merge ran on the list [P, P] as analysed, every conflict set to skip
SelfMergeUnderSkip ==
    /\ merge.done
    /\ analysis.done
    /\ analysis.packs = merge.packs
    /\ Len(merge.packs) = 2
    /\ merge.packs[1] = merge.packs[2]
    /\ Len(merge.conflicts) = Len(analysis.conflicts)
    /\ \A c \in 1..Len(merge.conflicts) :
          /\ merge.conflicts[c].path = analysis.conflicts[c].path
          /\ merge.conflicts[c].resolution = "skip"

\* C12: analysing and merging [P, P] with every conflict set to skip gives merged
\* textures whose paths are exactly the texture paths of P, each once, each with the
\* content P holds there.
C12_SelfMergeUnderSkipIsIdentity ==
    SelfMergeUnderSkip =>
        LET P == merge.packs[1]
        IN  /\ {merge.mergedTextures[k].key : k \in 1..Len(merge.mergedTextures)}
                 = TexturePaths(<<P>>)
            /\ \A path \in TexturePaths(<<P>>) :
                  /\ Cardinality(MergedAt(path)) = 1
                  /\ \A k \in MergedAt(path) :
                        merge.mergedTextures[k].value.content = ContentAt(P, path)

\* a pack with two textures merged with itself under skip
C12_Witness ==
    /\ SelfMergeUnderSkip
    /\ Cardinality(TexturePaths(<<merge.packs[1]>>)) = 2
    /\ Len(merge.conflicts) = 2

\* the bitmap providers of a pack whose ascent is not below their height
BadBitmapProviders(pack) ==
    {<<f, i>> \in (1..Len(pack.fonts)) \X (1..1) :
        /\ i <= Len(pack.fonts[f].providers)
        /\ pack.fonts[f].providers[i].type = "bitmap"
        /\ pack.fonts[f].providers[i].ascent >= pack.fonts[f].providers[i].height}

\* C13 (as claimed): for a pack with a bitmap provider whose ascent >= height,
\* the Validate button reports the pack as not valid, and a Java export still delivers an archive
\* whose font document holds that provider with its ascent and height.
C13_BadBitmapReportedAndExported ==
    /\ validationResults # NoErrors /\ BadBitmapProviders(validationResults.pack) # {} =>
          ~validationResults.isValid
    /\ download.outcome # "none" /\ download.edition = "java" =>
          \A b \in BadBitmapProviders(download.pack) :
              /\ download.outcome = "archive"
              /\ LET font == download.pack.fonts[b[1]]
                     doc == ZipGet(download.zip, FontPath(font.name))
                 IN  /\ doc # NoDoc
                     /\ doc.providers[b[2]].ascent = font.providers[b[2]].ascent
                     /\ doc.providers[b[2]].height = font.providers[b[2]].height

\* the cases pack validation rejects: no name, no description, no model, or two
\* models of one target item with the same identifier
Rejected(pack) ==
    \/ pack.name = ""
    \/ pack.description = ""
    \/ pack.models = <<>>
    \/ \E i, j \in 1..Len(pack.models) :
          /\ i # j
          /\ pack.models[i].targetItem = pack.models[j].targetItem
          /\ pack.models[i].customModelData = pack.models[j].customModelData

WellFormedFonts(zip) == {i \in 1..Len(FontFiles(zip)) : Parses(FontFiles(zip)[i].doc)}

\* C15 (as claimed): an import of a readable archive whose head document parses ends
\* in success whatever other document is malformed, and every texture file and every
\* well-formed font document of the archive is in the imported pack.
C15_MalformedEntrySkippedAlone ==
    imported.pc \in {"done", "error"} /\ imported.file.readable
    /\ ~ThrowsEarly(imported.file.zip) =>
        /\ imported.pc = "done"
        /\ Len(resourcePack.textures) = Len(ProbedFiles(imported.file.zip))
        /\ \A i \in WellFormedFonts(imported.file.zip) :
              \E f \in 1..Len(resourcePack.fonts) :
                  resourcePack.fonts[f].name = Last(FontFiles(imported.file.zip)[i].path.segs)

\* C16 (as claimed): every started import reaches a terminal outcome, success or
\* reported error, and the processing flag is cleared after it, whatever the archive
\* holds and whichever texture fails to decode.
C16_EveryImportEnds ==
    /\ (imported.pc = "probing") ~> (imported.pc \in {"done", "error"})
    /\ (imported.pc \in {"done", "error"}) ~> ~isProcessing

\* C17 (as claimed): an import that ends in the error outcome leaves the pack and
\* the selected edition exactly as they were when it started.
C17_FailedImportChangesNothing ==
    imported.pc = "error" =>
        /\ resourcePack = imported.before.pack
        /\ packEdition = imported.before.edition

ExtendedPairs(zip) ==
    LET pairs == OverridePairs(baseItemOverrides(zip))
    IN  FilterSeq(pairs, {p \in Range(pairs) : TypeOfCmd(p.override.predicate) = "object"})

\* the imported models decoded from a pair
ModelsOfPair(pack, pair) ==
    {i \in 1..Len(pack.models) :
        /\ pack.models[i].name = Last(modelRefFull(pair.override.model).segs)
        /\ pack.models[i].targetItem = pair.targetItem}

JavaImportDone == imported.pc = "done" /\ detectPackEdition(imported.file.zip) = "java"

\* C19: the primary identifier an import gives a model whose predicate is object-valued
\* lies in 1..10000 and is the same for every predicate with the same serialization,
\* also when the 32-bit hash of the serialization is negative or the minimum integer.
C19_SyntheticIdInRange ==
    JavaImportDone =>
        \A p \in Range(ExtendedPairs(imported.file.zip)) :
            \A i \in ModelsOfPair(resourcePack, p) :
                LET cmd == p.override.predicate.custom_model_data_object
                    id == resourcePack.models[i].customModelData
                IN  /\ id \in 1..10000
                    /\ \A other \in ExtendedInputs :
                          JsonStringify(other) = JsonStringify(cmd) =>
                              DecodePredicate([custom_model_data_object |-> other]).customModelData = id

C19_Witness ==
    /\ JavaImportDone
    /\ \E p \in Range(ExtendedPairs(imported.file.zip)) :
          /\ StringHash(JsonStringify(p.override.predicate.custom_model_data_object)) = <<32768, 0>>
          /\ \E i \in ModelsOfPair(resourcePack, p) : resourcePack.models[i].customModelData = 3649

\* the array of the predicate under a key, empty when the predicate has none
ArrayOf(cmd, key) == IF HasField(cmd, key) THEN cmd[key] ELSE <<>>

\* C20 as stated: the floats, flags, strings and colors stored with an imported model
\* equal the arrays of its predicate, element for element.
C20_ExtendedStoredVerbatim ==
    JavaImportDone =>
        \A p \in Range(ExtendedPairs(imported.file.zip)) :
            \A i \in ModelsOfPair(resourcePack, p) :
                LET cmd == p.override.predicate.custom_model_data_object
                    model == resourcePack.models[i]
                IN  /\ model.customModelDataFloats = ArrayOf(cmd, "floats")
                    /\ model.customModelDataFlags = ArrayOf(cmd, "flags")
                    /\ model.customModelDataStrings = ArrayOf(cmd, "strings")
                    /\ Len(model.customModelDataColors) = Len(ArrayOf(cmd, "colors"))
                    /\ \A k \in 1..Len(model.customModelDataColors) :
                          /\ ~HasField(model.customModelDataColors[k], "hex")
                          /\ model.customModelDataColors[k] = cmd.colors[k]

\* C20: the floats, flags and strings stored with an imported model equal the arrays of
\* its predicate; each color of the predicate, an array of components in 0..255, is
\* stored as a hexadecimal text of two digits per component, in the order of the array.
C20_ExtendedStoredColorsAsHex ==
    JavaImportDone =>
        \A p \in Range(ExtendedPairs(imported.file.zip)) :
            \A i \in ModelsOfPair(resourcePack, p) :
                LET cmd == p.override.predicate.custom_model_data_object
                    model == resourcePack.models[i]
                    colors == ArrayOf(cmd, "colors")
                IN  /\ model.customModelDataFloats = ArrayOf(cmd, "floats")
                    /\ model.customModelDataFlags = ArrayOf(cmd, "flags")
                    /\ model.customModelDataStrings = ArrayOf(cmd, "strings")
                    /\ Len(model.customModelDataColors) = Len(colors)
                    /\ \A k \in 1..Len(colors) :
                          LET hex == model.customModelDataColors[k].hex
                          IN  /\ Len(hex) = 2 * Len(colors[k])
                              /\ \A c \in 1..Len(colors[k]) :
                                    /\ hex[2 * c - 1] \in 0..15
                                    /\ hex[2 * c] \in 0..15
                                    /\ 16 * hex[2 * c - 1] + hex[2 * c] = colors[k][c]

C20_Witness ==
    /\ JavaImportDone
    /\ \E i \in 1..Len(resourcePack.models) :
          /\ resourcePack.models[i].customModelDataFloats = <<12>>
          /\ resourcePack.models[i].customModelDataFlags = <<TRUE>>
          /\ resourcePack.models[i].customModelDataStrings = <<<<103, 101, 109>>>>
          /\ resourcePack.models[i].customModelDataColors = <<[hex |-> <<0, 0, 1, 0, 15, 15>>]>>

\* every node of a tree, at every depth, in the order of a walk from the top
RECURSIVE AllNodes(_, _)
AllNodes(children, parentName) ==
    IF children = <<>> THEN <<>>
    ELSE (IF HasField(Head(children), "uuid") THEN <<>>
          ELSE <<[node |-> Head(children), parent |-> parentName]>>
               \o AllNodes(Head(children).children, Head(children).name))
         \o AllNodes(Tail(children), parentName)

\* the models of the pack that handleBbmodelUpload converted from the document at hand
Converted(pack) == {i \in 1..Len(pack.models) : HasGeometry(pack.models[i])}

\* C21 (as claimed): the geometry converted from a document has exactly one bone per
\* node of the outliner at every depth, each bone of a node below the top names its
\* parent node, and each child reference that finds an element is a cube of the bone of
\* the node holding the reference.
C21_EveryNodeIsOneBone ==
    \A i \in Converted(resourcePack) :
        LET bones == resourcePack.models[i].bedrockGeometry.bones
            nodes == AllNodes(upload.parsedData.outliner, None)
        IN  /\ Len(bones) = Len(nodes)
            /\ \A n \in 1..Len(nodes) :
                  /\ bones[n].name = nodes[n].node.name
                  /\ nodes[n].parent # None =>
                        HasField(bones[n], "parent") /\ bones[n].parent = nodes[n].parent
                  /\ Len(bones[n].cubes) =
                        Cardinality({k \in 1..Len(nodes[n].node.children) :
                            ElementsOf(upload.parsedData, nodes[n].node.children[k]) # <<>>})

GeoPath(name) == ZipPath(<<"models", "entity", name>>, "geo.json")
AttachablePath(name) == ZipPath(<<name>>, "attachable.json")

\* the exported models of a Bedrock archive, with and without a geometry
WithGeometry(pack) ==
    {m \in Range(validModels(pack.models)) : HasGeometry(m)}
WithoutGeometry(pack) ==
    {m \in Range(validModels(pack.models)) : ~HasGeometry(m)}

BedrockExportDone == download.outcome \in {"archive", "invalid"} /\ download.edition = "bedrock"

\* C22: a Bedrock export of a pack that passes validation ends with an archive, whatever
\* models lack a geometry; the archive holds the geometry and the attachable of every
\* exported model that has a geometry, and every geometry or attachable document in it
\* is that of an exported model that has one.
C22_GeometryFailureIsolated ==
    BedrockExportDone =>
        /\ validateResourcePack(download.pack) = <<>> => download.outcome = "archive"
        /\ download.outcome = "archive" =>
              /\ \A m \in WithGeometry(download.pack) :
                    /\ ZipGet(download.zip, GeoPath(m.name)) # NoDoc
                    /\ ZipGet(download.zip, AttachablePath(m.name)) # NoDoc
              /\ \A e \in Range(download.zip) :
                    e.path.ext \in {"geo.json", "attachable.json"} =>
                        \E m \in WithGeometry(download.pack) :
                            /\ e.path \in {GeoPath(m.name), AttachablePath(m.name)}
                            /\ e.path = GeoPath(m.name) => e.doc.kind = "geometry"
              /\ \A m \in WithoutGeometry(download.pack) :
                    (\A g \in WithGeometry(download.pack) : g.name # m.name) =>
                        /\ ZipGet(download.zip, GeoPath(m.name)) = NoDoc
                        /\ ZipGet(download.zip, AttachablePath(m.name)) = NoDoc

C22_Witness ==
    /\ BedrockExportDone
    /\ download.outcome = "archive"
    /\ WithGeometry(download.pack) # {}
    /\ WithoutGeometry(download.pack) # {}
    /\ \E e \in Range(download.zip) : e.path.ext = "geo.json"

\* C23 (as claimed): the archive of a Bedrock export of a pack with sounds holds the
\* sound definitions, with languages one .lang file per language whose region code is
\* in upper case, and with particles one particle document per particle, next to the
\* manifest.
C23_BedrockExportCarriesAssets ==
    BedrockExportDone /\ download.outcome = "archive" =>
        /\ ZipGet(download.zip, ZipPath(<<"manifest">>, "json")) # NoDoc
        /\ download.pack.sounds # <<>> =>
              ZipGet(download.zip, ZipPath(<<"sounds", "sound_definitions">>, "json")) # NoDoc
        /\ Cardinality({e \in Range(download.zip) : e.path.ext = "lang"})
              = Len(download.pack.languages)
        /\ \A i \in 1..Len(download.pack.particles) :
              ZipGet(download.zip,
                     ZipPath(<<"particles", download.pack.particles[i].name>>, "json")) # NoDoc

\* the file a provider's source comes from, if any: its own, else the font's when the
\* font's is a .png for a bitmap provider or a ttf/otf for a ttf provider
SourceOf(font, provider) ==
    IF provider.type \notin {"bitmap", "ttf"} THEN <<>>
    ELSE IF HasField(provider, "fileHandle") THEN <<provider.fileHandle>>
    ELSE IF ~HasField(font, "file") THEN <<>>
    ELSE IF provider.type = "bitmap" /\ font.file.ext \in {"png", "PNG"} THEN <<font.file>>
    ELSE IF provider.type = "ttf" /\ font.file.ext \in {"ttf", "TTF", "otf"} THEN <<font.file>>
    ELSE <<>>

\* the source files a Java export saves, in the order it saves them
SavedSources(writes) ==
    LET saved == FilterSeq(writes, {w \in Range(writes) : w.doc.kind = "fontsource"})
    IN  [i \in 1..Len(saved) |-> saved[i].doc.file]

JavaExportDone == download.outcome = "archive" /\ download.edition = "java"

\* C24: a Java export saves for every bitmap or ttf provider at most one source file,
\* the provider's own file when it has one, else the font's file when its type fits
\* the provider, and never both; no other source file is saved.
C24_OneSourcePerProvider ==
    JavaExportDone =>
        /\ SavedSources(download.writes) =
              Concat([i \in 1..Len(download.pack.fonts) |->
                  Concat([k \in 1..Len(download.pack.fonts[i].providers) |->
                      SourceOf(download.pack.fonts[i], download.pack.fonts[i].providers[k])])])
        /\ \A i \in 1..Len(download.pack.fonts) :
              \A k \in 1..Len(download.pack.fonts[i].providers) :
                  Len(SourceWrites(download.pack.fonts[i],
                                   download.pack.fonts[i].providers[k])) <= 1

C24_Witness ==
    /\ JavaExportDone
    /\ \E i \in 1..Len(download.pack.fonts) :
          /\ HasField(download.pack.fonts[i], "file")
          /\ \E k \in 1..Len(download.pack.fonts[i].providers) :
                /\ HasField(download.pack.fonts[i].providers[k], "fileHandle")
                /\ download.pack.fonts[i].providers[k].type = "bitmap"
                /\ download.pack.fonts[i].file.ext = "png"
                /\ SavedSources(download.writes) = <<download.pack.fonts[i].providers[k].fileHandle>>

\* the fields of a pack that are not binary content: files are left out
PlainPack(pack) ==
    [name |-> pack.name, description |-> pack.description, format |-> pack.format,
     models |-> pack.models,
     textures |-> [i \in 1..Len(pack.textures) |->
                     Pick(pack.textures[i], DOMAIN pack.textures[i] \ {"file"})],
     fonts |-> [i \in 1..Len(pack.fonts) |->
                  [name |-> pack.fonts[i].name,
                   providers |-> [k \in 1..Len(pack.fonts[i].providers) |->
                       Pick(pack.fonts[i].providers[k],
                            DOMAIN pack.fonts[i].providers[k] \ {"fileHandle"})]]],
     sounds |-> [i \in 1..Len(pack.sounds) |->
                   Pick(pack.sounds[i], DOMAIN pack.sounds[i] \ {"file"})],
     languages |-> pack.languages,
     particles |-> [i \in 1..Len(pack.particles) |->
                      Pick(pack.particles[i], DOMAIN pack.particles[i] \ {"file"})],
     shaders |-> [i \in 1..Len(pack.shaders) |->
                    Pick(pack.shaders[i], DOMAIN pack.shaders[i] \ {"file"})]]

SettingsImported == imported.pc = "done" /\ imported.source.outcome = "settings"

\* C25 (as claimed): the pack after importing a settings document equals, in every
\* field that is not binary content, the pack the document was exported from.
C25_SettingsRoundTrip ==
    SettingsImported => PlainPack(resourcePack) = PlainPack(imported.source.pack)

\* the pairs of the item definitions of both shapes: the dispatch documents under
\* items/ and the legacy lists of the catalog's items under models/item/
PairsOfBothShapes(zip) ==
    OverridePairs(ItemsScan(<<>>, ItemFiles(zip)))
    \o OverridePairs(LegacyScan(<<>>, zip, MINECRAFT_ITEMS))

\* the document a pair refers to is in the archive and parses
PairResolves(zip, pair) ==
    LET doc == ZipGet(zip, ModelDocPath(modelRefFull(pair.override.model)))
    IN  ~NoCustomModelData(pair.override.predicate) /\ doc # NoDoc /\ Parses(doc)

\* the base items that have a legacy list in the archive without being in the catalog
LegacyOutsideCatalog(zip) ==
    {Last(zip[i].path.segs) : i \in {k \in 1..Len(zip) :
        /\ zip[k].path = ModelsItemPath(Last(zip[k].path.segs))
        /\ HasField(zip[k].doc, "overrides")
        /\ Last(zip[k].path.segs) \notin Range(MINECRAFT_ITEMS)}}

\* C26 (as claimed): a Java import takes the pairs of the dispatch documents and of the
\* legacy lists of catalog items alike, also when one archive holds both shapes, and
\* never a pair of a legacy list of an item outside the catalog.
C26_BothShapesImported ==
    JavaImportDone =>
        /\ \A p \in Range(PairsOfBothShapes(imported.file.zip)) :
              PairResolves(imported.file.zip, p) => ModelsOfPair(resourcePack, p) # {}
        /\ \A i \in 1..Len(resourcePack.models) :
              resourcePack.models[i].targetItem \notin LegacyOutsideCatalog(imported.file.zip)

\* the models addModel appended: an uploaded model carries a bedrockGeometry
AddedModels ==
    {i \in 1..Len(resourcePack.models) : ~HasField(resourcePack.models[i], "bedrockGeometry")}

\* C27 (as claimed): addModel gives the smallest identifier from 0 on that is not in
\* use, so the first model of an empty pack gets 0 and, whatever the calls and the
\* renders between them, the identifiers of the added models are pairwise distinct.
C27_AddModelIdsDistinct ==
    /\ 1 \in AddedModels => resourcePack.models[1].customModelData = 0
    /\ \A i, j \in AddedModels :
          i # j => resourcePack.models[i].customModelData # resourcePack.models[j].customModelData

\* C28 (as claimed): in the archive of a Java export every document is the one its
\* zip.file call wrote, no later call having replaced it: the legacy list of a target
\* item outlives the model documents, whatever the models are named, and no two
\* models write one model-document path.
C28_NoDocumentReplaced ==
    (download.outcome = "archive" /\ download.edition = "java") =>
        /\ \A i \in 1..Len(download.writes) :
              ZipGet(download.zip, download.writes[i].path) = download.writes[i].doc
        /\ \A i, j \in 1..Len(validModels(download.pack.models)) :
              i # j => ModelsItemPath(validModels(download.pack.models)[i].name)
                         # ModelsItemPath(validModels(download.pack.models)[j].name)

\* Texture processing: up to MaxCalls requests on one worker
TextureFileInputs == {"gem.png", "ruby.png", "broken"}

InitTextureWorker ==
    /\ resourcePack \in {[name |-> "Pack", description |-> "A pack", format |-> DefaultFormat,
                          models |-> <<>>, textures |-> <<>>, fonts |-> <<>>,
                          sounds |-> <<>>, languages |-> <<>>, particles |-> <<>>,
                          shaders |-> <<>>]}
    /\ IdleExport
    /\ IdleImport
    /\ IdleMerge

NextTextureWorker ==
    \/ \E type \in {"compress", "resize"}, file \in TextureFileInputs : TextureCall(type, file)
    \/ TextureWorkerTakes
    \/ \E request \in textureWorker.running : TextureWorkerAnswers(request)
    \/ TextureMessage

SpecTextureWorker == InitTextureWorker /\ [][NextTextureWorker]_vars

\* C29 (as claimed): whatever the order of the worker's answers, the promise of a
\* compressTexture or resizeTexture call settles with the response to its own request,
\* also when another request is in flight on the same worker.
C29_OwnResponse ==
    \A c \in 1..Len(textureWorker.promises) :
        textureWorker.promises[c].status # "pending" =>
            textureWorker.promises[c] =
                SettleTexture(textureWorker.calls[c], TextureResponse(textureWorker.calls[c]))

\* ZIP generation: up to MaxCalls generateZip calls on one worker
ZipFileInputs == {<<"pack.mcmeta">>, <<"pack.mcmeta", "gem.png">>, <<"ruby.png">>}

InitZipWorker ==
    /\ resourcePack \in {[name |-> "Pack", description |-> "A pack", format |-> DefaultFormat,
                          models |-> <<>>, textures |-> <<>>, fonts |-> <<>>,
                          sounds |-> <<>>, languages |-> <<>>, particles |-> <<>>,
                          shaders |-> <<>>]}
    /\ IdleExport
    /\ IdleImport
    /\ IdleMerge

NextZipWorker ==
    \/ \E files \in ZipFileInputs : ZipCall(files)
    \/ ZipWorkerTakes
    \/ \E generator \in zipWorker.finalizing : ZipWorkerCompletes(generator)
    \/ ZipMessage

SpecZipWorker == InitZipWorker /\ [][NextZipWorker]_vars

\* C30 (as claimed): a generateZip call never rejects and resolves with the archive of
\* exactly its own files, also when a second call starts before the first has
\* finalized; and no addFile throws 'ZIP generator not initialized', the init of its
\* call having been processed before it.
C30_OwnArchive ==
    /\ \A c \in 1..Len(zipWorker.promises) :
          /\ zipWorker.promises[c].status # "rejected"
          /\ zipWorker.promises[c].status = "resolved" =>
                Range(zipWorker.promises[c].value) = Range(zipWorker.calls[c])
    /\ \A request \in zipWorker.thrown : request.type # "addFile"

====
